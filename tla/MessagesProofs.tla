--------------------------- MODULE MessagesProofs ---------------------------
(* Lemmas about the operators of Messages, for any tasks, servers and users: *)
(* what they do to the ready queues and the queues of callers, who runs and  *)
(* who waits for whom, and which tables they leave alone.  There is no       *)
(* behaviour here: the proofs of the modules that send messages use them.    *)
EXTENDS Messages, SequenceTheorems, FiniteSetTheorems, WellFoundedInduction, TLAPS

-----------------------------------------------------------------------------
(* Queues as sequences.                                                      *)

\* Taking p out leaves the others, in their order.
LEMMA WithoutProperties ==
    ASSUME NEW S, NEW s \in Seq(S), NoRepetition(s), NEW p
    PROVE  /\ Without(s, p) \in Seq(S) /\ NoRepetition(Without(s, p))
           /\ Members(Without(s, p)) = Members(s) \ {p}
           /\ s # << >> /\ Head(s) # p =>
                Without(s, p) # << >> /\ Head(Without(s, p)) = Head(s)
  <1>1. CASE p \notin Members(s)
    BY <1>1 DEF Without
  <1>2. CASE p \in Members(s)
    <2> DEFINE n == CHOOSE i \in DOMAIN s : s[i] = p
               A == SubSeq(s, 1, n - 1)
               B == SubSeq(s, n + 1, Len(s))
    <2>1. /\ Len(s) \in Nat /\ DOMAIN s = 1 .. Len(s)
          /\ \A i \in 1 .. Len(s) : s[i] \in S
      BY LenProperties
    <2>2. n \in 1 .. Len(s) /\ s[n] = p
      BY <1>2, <2>1 DEF Members
    <2>3. Without(s, p) = A \o B
      BY <1>2 DEF Without
    <2> HIDE DEF n
    <2>4. /\ A \in Seq(S) /\ Len(A) = n - 1
          /\ \A i \in 1 .. n - 1 : A[i] = s[i]
      <3>1. 1 \in Int /\ n - 1 \in Int /\ \A i \in 1 .. n - 1 : s[i] \in S
        BY <2>1, <2>2
      <3>2. /\ A \in Seq(S) /\ Len(A) = IF 1 <= n - 1 THEN n - 1 - 1 + 1 ELSE 0
            /\ \A i \in 1 .. n - 1 - 1 + 1 : A[i] = s[1 + i - 1]
        BY <3>1, SubSeqProperties
      <3>3. /\ (IF 1 <= n - 1 THEN n - 1 - 1 + 1 ELSE 0) = n - 1 /\ n - 1 - 1 + 1 = n - 1
            /\ \A i \in 1 .. n - 1 : 1 + i - 1 = i
        <4>1. n \in Int /\ n >= 1
          BY <2>1, <2>2
        <4> QED
          BY <4>1
      <3> HIDE DEF A
      <3> QED
        BY <3>2, <3>3
    <2>5. /\ B \in Seq(S) /\ Len(B) = Len(s) - n
          /\ \A i \in 1 .. Len(s) - n : B[i] = s[n + i]
      <3>1. n + 1 \in Int /\ Len(s) \in Int /\ \A i \in n + 1 .. Len(s) : s[i] \in S
        BY <2>1, <2>2
      <3>2. /\ B \in Seq(S) /\ Len(B) = IF n + 1 <= Len(s) THEN Len(s) - (n + 1) + 1 ELSE 0
            /\ \A i \in 1 .. Len(s) - (n + 1) + 1 : B[i] = s[n + 1 + i - 1]
        BY <3>1, SubSeqProperties
      <3>3. /\ (IF n + 1 <= Len(s) THEN Len(s) - (n + 1) + 1 ELSE 0) = Len(s) - n
            /\ Len(s) - (n + 1) + 1 = Len(s) - n
            /\ \A i \in 1 .. Len(s) - n : n + 1 + i - 1 = n + i
        <4>1. n \in Int /\ Len(s) \in Int /\ n <= Len(s)
          BY <2>1, <2>2
        <4> QED
          BY <4>1
      <3> HIDE DEF B
      <3> QED
        BY <3>2, <3>3
    <2> DEFINE W == A \o B
    <2> HIDE DEF A, B
    <2>6. /\ W \in Seq(S) /\ Len(W) = Len(A) + Len(B)
          /\ \A i \in 1 .. Len(A) + Len(B) :
                W[i] = IF i <= Len(A) THEN A[i] ELSE B[i - Len(A)]
      BY <2>4, <2>5, ConcatProperties
    <2> HIDE DEF W
    <2>7. /\ Len(W) = Len(s) - 1 /\ DOMAIN W = 1 .. Len(s) - 1
          /\ \A i \in 1 .. Len(s) - 1 : W[i] = IF i < n THEN s[i] ELSE s[i + 1]
      <3>1. Len(W) = Len(s) - 1 /\ DOMAIN W = 1 .. Len(W)
        BY <2>1, <2>2, <2>4, <2>5, <2>6, LenProperties
      <3>2. ASSUME NEW i \in 1 .. Len(s) - 1 PROVE W[i] = IF i < n THEN s[i] ELSE s[i + 1]
        <4>0. /\ i \in 1 .. Len(A) + Len(B) /\ (i < n <=> i <= Len(A))
              /\ i < n => i \in 1 .. n - 1
              /\ ~(i < n) => /\ i - (n - 1) \in 1 .. Len(s) - n
                             /\ n + (i - (n - 1)) = i + 1
          BY <2>1, <2>2, <2>4, <2>5
        <4>1. CASE i < n
          BY <2>4, <2>6, <4>0, <4>1
        <4>2. CASE ~(i < n)
          <5>1. W[i] = B[i - (n - 1)]
            BY <2>4, <2>6, <4>0, <4>2
          <5> QED
            BY <2>5, <4>0, <4>2, <5>1
        <4> QED
          BY <4>1, <4>2
      <3> QED
        BY <3>1, <3>2
    <2> DEFINE at(i) == IF i < n THEN i ELSE i + 1
    <2>0. \A i \in DOMAIN W : at(i) \in DOMAIN s /\ at(i) # n /\ W[i] = s[at(i)]
      BY <2>1, <2>2, <2>7
    <2>8. NoRepetition(W)
      <3> SUFFICES ASSUME NEW i \in DOMAIN W, NEW j \in DOMAIN W, W[i] = W[j]
                   PROVE  i = j
        BY DEF NoRepetition
      <3>1. at(i) = at(j)
        BY <2>0 DEF NoRepetition
      <3>2. i \in Int /\ j \in Int /\ n \in Int
        BY <2>1, <2>2, <2>7
      <3> QED
        BY <3>1, <3>2
    <2>9. Members(W) \subseteq Members(s) \ {p}
      <3> SUFFICES ASSUME NEW i \in DOMAIN W PROVE W[i] \in Members(s) \ {p}
        BY DEF Members
      <3>1. at(i) \in DOMAIN s /\ n \in DOMAIN s /\ s[n] = p /\ at(i) # n
        BY <2>0, <2>1, <2>2
      <3>2. s[at(i)] # p
        BY <3>1 DEF NoRepetition
      <3> HIDE DEF at
      <3> QED
        BY <2>0, <3>1, <3>2 DEF Members
    <2>10. Members(s) \ {p} \subseteq Members(W)
      <3> SUFFICES ASSUME NEW i \in 1 .. Len(s), s[i] # p PROVE s[i] \in Members(W)
        BY <2>1 DEF Members
      <3>1. CASE i < n
        BY <2>1, <2>2, <2>7, <3>1 DEF Members
      <3>2. CASE i > n
        <4>1. i - 1 \in 1 .. Len(s) - 1 /\ W[i - 1] = s[i]
          BY <2>1, <2>2, <2>7, <3>2
        <4> QED
          BY <2>7, <4>1 DEF Members
      <3> QED
        BY <2>1, <2>2, <3>1, <3>2
    <2>11. s # << >> /\ Head(s) # p => W # << >> /\ Head(W) = Head(s)
      <3> SUFFICES ASSUME Head(s) # p PROVE W # << >> /\ Head(W) = Head(s)
        OBVIOUS
      <3>1. Head(s) = s[1] /\ Len(s) # 0
        BY <2>1, <2>2
      <3>2. n # 1 /\ 1 \in 1 .. Len(s) - 1 /\ W[1] = s[1]
        BY <2>1, <2>2, <2>7, <3>1
      <3>3. W # << >> /\ Head(W) = W[1]
        BY <2>6, <2>7, <3>2
      <3> QED
        BY <3>1, <3>2, <3>3
    <2> QED
      BY <2>3, <2>6, <2>8, <2>9, <2>10, <2>11 DEF W
  <1> QED
    BY <1>1, <1>2

\* A process goes to the end or to the front of a queue that it is not in.
LEMMA AppendKeeps ==
    ASSUME NEW S, NEW s \in Seq(S), NoRepetition(s), NEW p \in S, p \notin Members(s)
    PROVE  /\ Append(s, p) \in Seq(S) /\ NoRepetition(Append(s, p))
           /\ Members(Append(s, p)) = Members(s) \cup {p}
           /\ Append(s, p) # << >>
           /\ Head(Append(s, p)) = IF s = << >> THEN p ELSE Head(s)
           /\ \A i \in DOMAIN Append(s, p) :
                (i \in DOMAIN s /\ Append(s, p)[i] = s[i]) \/ Append(s, p)[i] = p
  <1>1. /\ Len(s) \in Nat /\ DOMAIN s = 1 .. Len(s)
        /\ Append(s, p) \in Seq(S) /\ Len(Append(s, p)) = Len(s) + 1
        /\ DOMAIN Append(s, p) = 1 .. Len(s) + 1
        /\ Append(s, p) # << >>
        /\ \A i \in 1 .. Len(s) : Append(s, p)[i] = s[i]
        /\ Append(s, p)[Len(s) + 1] = p
    BY LenProperties, AppendProperties
  <1>2. Head(Append(s, p)) = IF s = << >> THEN p ELSE Head(s)
    BY HeadTailAppend
  <1>3. \A i \in DOMAIN Append(s, p) : i = Len(s) + 1 \/ i \in DOMAIN s
    BY <1>1
  <1>4. NoRepetition(Append(s, p))
    BY <1>1, <1>3 DEF NoRepetition, Members
  <1>5. Members(Append(s, p)) = Members(s) \cup {p}
    BY <1>1, <1>3 DEF Members
  <1> QED
    BY <1>1, <1>2, <1>3, <1>4, <1>5

\* A user process goes to the front of its queue.
LEMMA PrependKeeps ==
    ASSUME NEW S, NEW s \in Seq(S), NoRepetition(s), NEW p \in S, p \notin Members(s)
    PROVE  /\ <<p>> \o s \in Seq(S) /\ NoRepetition(<<p>> \o s)
           /\ Members(<<p>> \o s) = Members(s) \cup {p}
           /\ <<p>> \o s # << >> /\ Head(<<p>> \o s) = p
  <1> DEFINE t == <<p>> \o s
  <1>1. /\ Len(s) \in Nat /\ DOMAIN s = 1 .. Len(s)
        /\ <<p>> \in Seq(S) /\ Len(<<p>>) = 1 /\ <<p>>[1] = p
    BY LenProperties
  <1>2. /\ t \in Seq(S) /\ Len(t) = 1 + Len(s)
        /\ \A i \in 1 .. 1 + Len(s) : t[i] = IF i <= 1 THEN <<p>>[i] ELSE s[i - 1]
    BY <1>1, ConcatProperties
  <1> HIDE DEF t
  <1>3. /\ DOMAIN t = 1 .. Len(s) + 1 /\ t[1] = p
        /\ \A i \in 1 .. Len(s) : t[i + 1] = s[i]
    BY <1>1, <1>2, LenProperties
  <1>4. \A i \in DOMAIN t : i = 1 \/ (i - 1 \in DOMAIN s /\ t[i] = s[i - 1])
    BY <1>1, <1>3
  <1>5. NoRepetition(t)
    <2> SUFFICES ASSUME NEW i \in DOMAIN t, NEW j \in DOMAIN t, t[i] = t[j] PROVE i = j
      BY DEF NoRepetition
    <2>1. CASE i = 1 \/ j = 1
      BY <1>1, <1>3, <1>4, <2>1 DEF Members
    <2>2. CASE i # 1 /\ j # 1
      <3>1. i - 1 = j - 1
        BY <1>4, <2>2 DEF NoRepetition
      <3> QED
        BY <1>1, <1>3, <3>1
    <2> QED
      BY <2>1, <2>2
  <1>6. Members(t) \subseteq Members(s) \cup {p}
    BY <1>3, <1>4 DEF Members
  <1>7. Members(s) \cup {p} \subseteq Members(t)
    <2>1. ASSUME NEW i \in 1 .. Len(s) PROVE s[i] \in Members(t)
      <3>1. i + 1 \in DOMAIN t /\ t[i + 1] = s[i]
        BY <1>1, <1>3
      <3> QED
        BY <3>1 DEF Members
    <2>2. p \in Members(t)
      BY <1>1, <1>3 DEF Members
    <2> QED
      BY <1>1, <2>1, <2>2 DEF Members
  <1>8. t # << >> /\ Head(t) = p
    BY <1>1, <1>2, <1>3
  <1> QED
    BY <1>2, <1>5, <1>6, <1>7, <1>8 DEF t

-----------------------------------------------------------------------------
(* The tables.                                                               *)

Fields == {"p_flags", "p_getfrom", "p_sendto", "p_callerq", "p_messbuf", "inbox",
           "p_pending", "p_pendcount", "sig_procs", "in_use", "int_blocked",
           "rdy", "proc_ptr"}

Flags == {"NO_MAP", "PENDING", "SIG_PENDING", "P_STOP"}

Queues == {"TASK_Q", "SERVER_Q", "USER_Q"}

\* The tables have their types; no task or server is stopped but by a message.
Typed(a) ==
    /\ Fields \subseteq DOMAIN a
    /\ a.p_flags \in [Procs -> SUBSET Flags]
    /\ \A p \in Procs \ USERS : a.p_flags[p] = {}
    /\ a.p_getfrom \in [Procs -> Procs \cup {ANY, HARDWARE, NONE}]
    /\ a.p_sendto \in [Procs -> Procs \cup {NONE}]
    /\ a.p_callerq \in [Procs -> Seq(Procs)]
    /\ a.rdy \in [Queues -> Seq(Procs)]
    /\ a.in_use \subseteq USERS
    /\ a.int_blocked \subseteq TASKS
    /\ DOMAIN a.inbox = Procs /\ DOMAIN a.p_messbuf = Procs
    /\ DOMAIN a.p_pending = Procs /\ DOMAIN a.p_pendcount = Procs

\* p waits for nothing.
Free(a, p) == a.p_getfrom[p] = NONE /\ a.p_sendto[p] = NONE

\* The ready queues are right, but p is in none.
QueuesWithout(a, p) ==
    \A q \in Queues :
        /\ NoRepetition(a.rdy[q])
        /\ Members(a.rdy[q]) =
             {x \in Procs : InUse(a, x) /\ Runnable(a, x) /\ QueueOf(x) = q} \ {p}

\* The tables of messages and signals are of the same processes.
SameDomains(a, b) ==
    /\ DOMAIN b = DOMAIN a
    /\ DOMAIN b.inbox = DOMAIN a.inbox /\ DOMAIN b.p_messbuf = DOMAIN a.p_messbuf
    /\ DOMAIN b.p_pending = DOMAIN a.p_pending
    /\ DOMAIN b.p_pendcount = DOMAIN a.p_pendcount

\* In b the same processes wait for the same.
SameWaits(a, b) ==
    /\ b.p_flags = a.p_flags /\ b.sig_procs = a.sig_procs
    /\ b.p_getfrom = a.p_getfrom /\ b.p_sendto = a.p_sendto
    /\ b.p_callerq = a.p_callerq
    /\ b.in_use = a.in_use /\ b.int_blocked = a.int_blocked
    /\ SameDomains(a, b)

\* In b nothing but the ready queues and proc_ptr is changed.
SameTables(a, b) ==
    /\ SameWaits(a, b)
    /\ b.inbox = a.inbox /\ b.p_messbuf = a.p_messbuf
    /\ b.p_pending = a.p_pending /\ b.p_pendcount = a.p_pendcount

\* A process has one kind of queue.
LEMMA QueueOfType == \A p : QueueOf(p) \in Queues
  BY DEF QueueOf, Queues

\* With p_flags empty only messages are waited for.
LEMMA RunnableIsFree ==
    ASSUME NEW a, Typed(a), NEW p \in Procs, p \notin USERS \/ a.p_flags[p] = {}
    PROVE  Runnable(a, p) <=> Free(a, p)
  BY DEF Typed, Runnable, Free

\* What ready and unready write.
LEMMA ReadyFields ==
    ASSUME NEW a, Typed(a), NEW p
    PROVE  /\ SameTables(a, ready(a, p))
           /\ ready(a, p).rdy = [q \in Queues |-> ready(a, p).rdy[q]]
           /\ \A q \in Queues \ {QueueOf(p)} : ready(a, p).rdy[q] = a.rdy[q]
           /\ ready(a, p).rdy[QueueOf(p)] =
                IF QueueOf(p) = "USER_Q" THEN <<p>> \o a.rdy[QueueOf(p)]
                ELSE Append(a.rdy[QueueOf(p)], p)
           /\ ready(a, p).proc_ptr =
                IF QueueOf(p) = "TASK_Q" /\ a.rdy["TASK_Q"] = << >> THEN p ELSE a.proc_ptr
  <1>1. Fields \subseteq DOMAIN a /\ DOMAIN a.rdy = Queues /\ QueueOf(p) \in Queues
    BY QueueOfType DEF Typed
  <1> QED
    BY <1>1 DEF ready, Fields, SameTables, SameWaits, SameDomains

\* What unready writes: proc_ptr stays only if p is not at the head of its queue,
\* or is a task that does not run.
LEMMA UnreadyFields ==
    ASSUME NEW a, Typed(a), NEW p
    PROVE  /\ SameTables(a, unready(a, p))
           /\ unready(a, p).rdy = [a.rdy EXCEPT ![QueueOf(p)] = Without(@, p)]
           /\ \/ unready(a, p).proc_ptr = Highest(unready(a, p).rdy)
              \/ /\ unready(a, p).proc_ptr = a.proc_ptr
                 /\ \/ a.rdy[QueueOf(p)] = << >> \/ Head(a.rdy[QueueOf(p)]) # p
                    \/ QueueOf(p) = "TASK_Q" /\ p # a.proc_ptr
  <1>1. Fields \subseteq DOMAIN a
    BY DEF Typed
  <1> QED
    BY <1>1 DEF unready, pick_proc, Fields, SameTables, SameWaits, SameDomains

\* What only looks at waits.
LEMMA SameWaitsTyped ==
    ASSUME NEW a, Typed(a), NEW b, SameWaits(a, b), b.rdy \in [Queues -> Seq(Procs)]
    PROVE  /\ Typed(b)
           /\ \A p : /\ Runnable(b, p) <=> Runnable(a, p)
                     /\ InUse(b, p) <=> InUse(a, p)
  BY DEF Typed, SameWaits, SameDomains, Runnable, InUse

\* Making p ready completes the queues, and the highest still runs unless a
\* process of a higher kind comes in.
LEMMA ReadyQueues ==
    ASSUME NEW a, Typed(a), NEW p \in Procs, QueuesWithout(a, p),
           Runnable(a, p), InUse(a, p)
    PROVE  /\ Typed(ready(a, p)) /\ QueuesHoldRunnable(ready(a, p))
           /\ \/ QueueOf(p) = "TASK_Q"
              \/ QueueOf(p) = "SERVER_Q" /\ a.rdy["TASK_Q"] \o a.rdy["SERVER_Q"] # << >>
              \/ QueueOf(p) = "USER_Q" /\ a.rdy["TASK_Q"] \o a.rdy["SERVER_Q"] # << >>
              => (a.proc_ptr = Highest(a.rdy) =>
                    ready(a, p).proc_ptr = Highest(ready(a, p).rdy))
  <1> DEFINE b == ready(a, p)
             r == QueueOf(p)
  <1>1. /\ a.rdy \in [Queues -> Seq(Procs)] /\ r \in Queues
        /\ \A q \in Queues : a.rdy[q] \in Seq(Procs)
    BY QueueOfType DEF Typed
  <1>2. /\ SameWaits(a, b) /\ b.rdy = [q \in Queues |-> b.rdy[q]]
        /\ \A q \in Queues \ {r} : b.rdy[q] = a.rdy[q]
        /\ b.rdy[r] = IF r = "USER_Q" THEN <<p>> \o a.rdy[r] ELSE Append(a.rdy[r], p)
        /\ b.proc_ptr = IF r = "TASK_Q" /\ a.rdy["TASK_Q"] = << >> THEN p ELSE a.proc_ptr
    BY ReadyFields DEF SameTables
  <1>3. NoRepetition(a.rdy[r]) /\ p \notin Members(a.rdy[r])
    BY <1>1 DEF QueuesWithout
  <1>4. /\ b.rdy[r] \in Seq(Procs) /\ NoRepetition(b.rdy[r]) /\ b.rdy[r] # << >>
        /\ Members(b.rdy[r]) = Members(a.rdy[r]) \cup {p}
        /\ Head(b.rdy[r]) = IF r = "USER_Q" \/ a.rdy[r] = << >> THEN p ELSE Head(a.rdy[r])
    <2>1. a.rdy[r] \in Seq(Procs)
      BY <1>1
    <2>2. CASE r = "USER_Q"
      <3>1. b.rdy[r] = <<p>> \o a.rdy[r]
        BY <1>2, <2>2
      <3> HIDE DEF b, r
      <3> QED
        BY <1>3, <2>1, <2>2, <3>1, PrependKeeps
    <2>3. CASE r # "USER_Q"
      <3>1. b.rdy[r] = Append(a.rdy[r], p)
        BY <1>2, <2>3
      <3> HIDE DEF b, r
      <3> QED
        BY <1>3, <2>1, <2>3, <3>1, AppendKeeps
    <2> QED
      BY <2>2, <2>3
  <1> HIDE DEF b
  <1>5. Typed(b) /\ \A x : (Runnable(b, x) <=> Runnable(a, x)) /\ (InUse(b, x) <=> InUse(a, x))
    <2>1. b.rdy \in [Queues -> Seq(Procs)]
      <3>1. \A q \in Queues : b.rdy[q] \in Seq(Procs)
        BY <1>1, <1>2, <1>4
      <3> QED
        BY <1>2, <3>1
    <2> QED
      BY <1>2, <2>1, SameWaitsTyped
  <1>6. QueuesHoldRunnable(b)
    <2> SUFFICES ASSUME NEW q \in Queues
                 PROVE  /\ NoRepetition(b.rdy[q])
                        /\ Members(b.rdy[q]) =
                             {x \in Procs : InUse(b, x) /\ Runnable(b, x) /\ QueueOf(x) = q}
      BY <1>2 DEF QueuesHoldRunnable
    <2>1. CASE q = r
      BY <1>4, <1>5, <2>1 DEF QueuesWithout
    <2>2. CASE q # r
      BY <1>2, <1>5, <2>2 DEF QueuesWithout
    <2> QED
      BY <2>1, <2>2
  <1>7. ASSUME \/ r = "TASK_Q"
               \/ r = "SERVER_Q" /\ a.rdy["TASK_Q"] \o a.rdy["SERVER_Q"] # << >>
               \/ r = "USER_Q" /\ a.rdy["TASK_Q"] \o a.rdy["SERVER_Q"] # << >>,
               a.proc_ptr = Highest(a.rdy)
        PROVE  b.proc_ptr = Highest(b.rdy)
    <2>1. a.rdy["TASK_Q"] \o a.rdy["SERVER_Q"] = << >> <=>
            a.rdy["TASK_Q"] = << >> /\ a.rdy["SERVER_Q"] = << >>
      <3>1. a.rdy["TASK_Q"] \in Seq(Procs) /\ a.rdy["SERVER_Q"] \in Seq(Procs)
        BY <1>1 DEF Queues
      <3> QED
        BY <3>1, ConcatEqualIffEmpty
    <2> HIDE DEF r
    <2>2. CASE r = "TASK_Q"
      BY <1>2, <1>4, <1>7, <2>2 DEF Highest, Queues
    <2>3. CASE r = "SERVER_Q"
      BY <1>2, <1>4, <1>7, <2>1, <2>3 DEF Highest, Queues
    <2>4. CASE r = "USER_Q"
      BY <1>2, <1>4, <1>7, <2>1, <2>4 DEF Highest, Queues
    <2> QED
      BY <1>7, <2>2, <2>3, <2>4
  <1> QED
    BY <1>5, <1>6, <1>7 DEF b

\* Making p unready takes it out, and the highest runs if it did before or if p,
\* which leaves, was the first of its queue.
LEMMA UnreadyQueues ==
    ASSUME NEW a, Typed(a), NEW p \in Procs, QueuesHoldRunnable(a)
    PROVE  /\ Typed(unready(a, p)) /\ QueuesWithout(unready(a, p), p)
           /\ \/ a.proc_ptr = Highest(a.rdy)
              \/ /\ a.rdy[QueueOf(p)] # << >> /\ Head(a.rdy[QueueOf(p)]) = p
                 /\ QueueOf(p) # "TASK_Q" \/ p = a.proc_ptr
              => unready(a, p).proc_ptr = Highest(unready(a, p).rdy)
  <1> DEFINE b == unready(a, p)
             r == QueueOf(p)
  <1>1. /\ a.rdy \in [Queues -> Seq(Procs)] /\ r \in Queues
        /\ \A q \in Queues : a.rdy[q] \in Seq(Procs)
    BY QueueOfType DEF Typed
  <1>2. /\ SameWaits(a, b) /\ b.rdy = [q \in Queues |-> b.rdy[q]]
        /\ \A q \in Queues \ {r} : b.rdy[q] = a.rdy[q]
        /\ b.rdy[r] = Without(a.rdy[r], p)
        /\ \/ b.proc_ptr = Highest(b.rdy)
           \/ /\ b.proc_ptr = a.proc_ptr
              /\ \/ a.rdy[r] = << >> \/ Head(a.rdy[r]) # p
                 \/ r = "TASK_Q" /\ p # a.proc_ptr
    <2>1. /\ SameWaits(a, b)
          /\ b.rdy = [a.rdy EXCEPT ![r] = Without(@, p)]
          /\ \/ b.proc_ptr = Highest(b.rdy)
             \/ /\ b.proc_ptr = a.proc_ptr
                /\ \/ a.rdy[r] = << >> \/ Head(a.rdy[r]) # p
                   \/ r = "TASK_Q" /\ p # a.proc_ptr
      BY UnreadyFields DEF SameTables
    <2> HIDE DEF b, r
    <2>2. /\ b.rdy = [q \in Queues |-> b.rdy[q]]
          /\ \A q \in Queues \ {r} : b.rdy[q] = a.rdy[q]
          /\ b.rdy[r] = Without(a.rdy[r], p)
      BY <1>1, <2>1
    <2> QED
      BY <2>1, <2>2
  <1>3. \A q \in Queues :
          /\ NoRepetition(a.rdy[q])
          /\ Members(a.rdy[q]) =
               {x \in Procs : InUse(a, x) /\ Runnable(a, x) /\ QueueOf(x) = q}
    BY <1>1 DEF QueuesHoldRunnable
  <1>4. /\ b.rdy[r] \in Seq(Procs) /\ NoRepetition(b.rdy[r])
        /\ Members(b.rdy[r]) = Members(a.rdy[r]) \ {p}
        /\ a.rdy[r] # << >> /\ Head(a.rdy[r]) # p =>
             b.rdy[r] # << >> /\ Head(b.rdy[r]) = Head(a.rdy[r])
    BY <1>1, <1>2, <1>3, WithoutProperties
  <1>5. a.rdy[r] = << >> => b.rdy[r] = << >>
    BY <1>2 DEF Without, Members
  <1> HIDE DEF b
  <1>6. Typed(b) /\ \A x : (Runnable(b, x) <=> Runnable(a, x)) /\ (InUse(b, x) <=> InUse(a, x))
    <2>1. b.rdy \in [Queues -> Seq(Procs)]
      <3>1. \A q \in Queues : b.rdy[q] \in Seq(Procs)
        BY <1>1, <1>2, <1>4
      <3> QED
        BY <1>2, <3>1
    <2> QED
      BY <1>2, <2>1, SameWaitsTyped
  <1>7. QueuesWithout(b, p)
    <2> SUFFICES ASSUME NEW q \in Queues
                 PROVE  /\ NoRepetition(b.rdy[q])
                        /\ Members(b.rdy[q]) =
                             {x \in Procs : InUse(b, x) /\ Runnable(b, x) /\ QueueOf(x) = q}
                               \ {p}
      BY DEF QueuesWithout
    <2>1. CASE q = r
      BY <1>3, <1>4, <1>6, <2>1
    <2>2. CASE q # r
      BY <1>2, <1>3, <1>6, <2>2
    <2> QED
      BY <2>1, <2>2
  <1>8. ASSUME \/ a.proc_ptr = Highest(a.rdy)
               \/ /\ a.rdy[r] # << >> /\ Head(a.rdy[r]) = p
                  /\ r # "TASK_Q" \/ p = a.proc_ptr
        PROVE  b.proc_ptr = Highest(b.rdy)
    <2> HIDE DEF r
    <2>1. CASE a.rdy[r] # << >> /\ Head(a.rdy[r]) = p /\ (r # "TASK_Q" \/ p = a.proc_ptr)
      BY <1>2, <2>1
    <2>2. CASE a.proc_ptr = Highest(a.rdy) /\ r = "TASK_Q"
      BY <1>2, <1>4, <1>5, <2>2 DEF Highest, Queues
    <2>3. CASE a.proc_ptr = Highest(a.rdy) /\ r = "SERVER_Q"
      BY <1>2, <1>4, <1>5, <2>3 DEF Highest, Queues
    <2>4. CASE a.proc_ptr = Highest(a.rdy) /\ r = "USER_Q"
      BY <1>2, <1>4, <1>5, <2>4 DEF Highest, Queues
    <2> QED
      BY <1>1, <1>8, <2>1, <2>2, <2>3, <2>4 DEF Queues
  <1> QED
    BY <1>6, <1>7, <1>8 DEF b

-----------------------------------------------------------------------------
(* Who waits for whom.                                                       *)

NoRing(a) == \A S \in (SUBSET Procs) \ {{}} : \E p \in S : a.p_sendto[p] \notin S

Waits(a) ==
    /\ CallersAreSenders(a)
    /\ \A u \in USERS : a.p_callerq[u] = << >>
    /\ \A u \in USERS \ a.in_use : Runnable(a, u)
    /\ \A p \in Procs : a.p_sendto[p] # NONE /\ a.p_getfrom[p] # NONE =>
                            a.p_getfrom[p] = a.p_sendto[p]
    /\ NobodyWaitsInVain(a)
    /\ NoRing(a)

Core(a) == Typed(a) /\ QueuesHoldRunnable(a) /\ Waits(a)

HighestRuns(a) == a.proc_ptr = Highest(a.rdy)

\* p is the first of its queue, and if it is a task it runs.
First(a, p) ==
    /\ a.rdy[QueueOf(p)] # << >> /\ Head(a.rdy[QueueOf(p)]) = p
    /\ QueueOf(p) = "TASK_Q" => a.proc_ptr = p

\* In c only x waits for something else than in a.
OneWaits(a, c, x) ==
    /\ DOMAIN c = DOMAIN a
    /\ c.in_use = a.in_use /\ c.rdy = a.rdy /\ c.proc_ptr = a.proc_ptr
    /\ \A y \in Procs \ {x} : /\ c.p_flags[y] = a.p_flags[y]
                              /\ c.p_getfrom[y] = a.p_getfrom[y]
                              /\ c.p_sendto[y] = a.p_sendto[y]

\* Numbers that are no processes, and processes of one kind.
LEMMA NotProcs ==
    /\ NONE \notin Procs /\ ANY \notin Procs /\ HARDWARE \notin Procs /\ IDLE \notin Procs
    /\ ANY # NONE /\ HARDWARE # NONE
    /\ \A p \in Procs : /\ QueueOf(p) = "USER_Q" <=> p \in USERS
                        /\ QueueOf(p) = "TASK_Q" <=> p \in TASKS
                        /\ p \in TASKS => p \notin USERS
    /\ TASKS \subseteq Procs
  <1>1. /\ NONE \notin Procs /\ ANY \notin Procs /\ HARDWARE \notin Procs /\ IDLE \notin Procs
        /\ TASKS \cap SERVERS = {} /\ TASKS \cap USERS = {} /\ SERVERS \cap USERS = {}
    BY SlotsAssumption
  <1>2. ANY # NONE /\ HARDWARE # NONE
    BY DEF ANY, HARDWARE, NONE
  <1> QED
    BY <1>1, <1>2 DEF QueueOf, Procs

\* Waits looks at nothing that ready and unready change.
LEMMA SameWaitsWaits ==
    ASSUME NEW a, NEW b, SameWaits(a, b), Waits(a)
    PROVE  Waits(b)
  BY DEF SameWaits, Waits, Runnable, CallersAreSenders, NobodyWaitsInVain, Acceptable, NoRing

\* The queues when one process changes its state.
LEMMA OneWaitsQueues ==
    ASSUME NEW a, Typed(a), NEW c, NEW x \in Procs, OneWaits(a, c, x)
    PROVE  /\ QueuesHoldRunnable(a) /\ ~Runnable(a, x) => QueuesWithout(c, x)
           /\ QueuesWithout(a, x) => QueuesWithout(c, x)
           /\ QueuesWithout(c, x) /\ ~Runnable(c, x) => QueuesHoldRunnable(c)
           /\ \A y : InUse(c, y) <=> InUse(a, y)
  <1>1. /\ DOMAIN a.rdy = Queues /\ c.rdy = a.rdy
        /\ \A y : InUse(c, y) <=> InUse(a, y)
    BY DEF Typed, OneWaits, InUse
  <1>2. \A y \in Procs \ {x} : Runnable(c, y) <=> Runnable(a, y)
    BY DEF OneWaits, Runnable
  <1>3. ASSUME QueuesHoldRunnable(a), ~Runnable(a, x) PROVE QueuesWithout(c, x)
    BY <1>1, <1>2, <1>3 DEF QueuesHoldRunnable, QueuesWithout
  <1>4. ASSUME QueuesWithout(a, x) PROVE QueuesWithout(c, x)
    BY <1>1, <1>2, <1>4 DEF QueuesWithout
  <1>5. ASSUME QueuesWithout(c, x), ~Runnable(c, x) PROVE QueuesHoldRunnable(c)
    BY <1>1, <1>2, <1>5 DEF QueuesHoldRunnable, QueuesWithout
  <1> QED
    BY <1>1, <1>3, <1>4, <1>5

\* A process that no longer waits is made ready if nothing else keeps it.
LEMMA ReadyCore ==
    ASSUME NEW c, Typed(c), Waits(c), NEW x \in Procs, QueuesWithout(c, x), InUse(c, x)
    PROVE  LET b == ReadyIfRunnable(c, x) IN
           /\ Core(b) /\ SameTables(c, b)
           /\ \A p \in Procs \ {x} :
                First(c, p) /\ (x \in USERS => p \notin USERS) => First(b, p)
           /\ \A p \in Procs \ USERS : First(c, p) /\ HighestRuns(c) => HighestRuns(b)
           /\ x \in TASKS /\ HighestRuns(c) => HighestRuns(b)
  <1> DEFINE b == ReadyIfRunnable(c, x)
  <1>1. CASE ~Runnable(c, x)
    <2>1. b = c
      BY <1>1 DEF ReadyIfRunnable
    <2>2. QueuesHoldRunnable(c)
      BY <1>1 DEF QueuesHoldRunnable, QueuesWithout, Typed
    <2> QED
      BY <2>1, <2>2 DEF Core, SameTables, SameWaits, SameDomains
  <1>2. CASE Runnable(c, x)
    <2>1. b = ready(c, x)
      BY <1>2 DEF ReadyIfRunnable
    <2> HIDE DEF b
    <2>2. Typed(b) /\ QueuesHoldRunnable(b)
      BY <1>2, <2>1, ReadyQueues
    <2>3. /\ SameTables(c, b)
          /\ \A q \in Queues \ {QueueOf(x)} : b.rdy[q] = c.rdy[q]
          /\ b.rdy[QueueOf(x)] = IF QueueOf(x) = "USER_Q" THEN <<x>> \o c.rdy[QueueOf(x)]
                                 ELSE Append(c.rdy[QueueOf(x)], x)
          /\ b.proc_ptr = IF QueueOf(x) = "TASK_Q" /\ c.rdy["TASK_Q"] = << >> THEN x
                          ELSE c.proc_ptr
      <3>1. /\ SameTables(c, ready(c, x))
            /\ \A q \in Queues \ {QueueOf(x)} : ready(c, x).rdy[q] = c.rdy[q]
            /\ ready(c, x).rdy[QueueOf(x)] =
                 IF QueueOf(x) = "USER_Q" THEN <<x>> \o c.rdy[QueueOf(x)]
                 ELSE Append(c.rdy[QueueOf(x)], x)
            /\ ready(c, x).proc_ptr =
                 IF QueueOf(x) = "TASK_Q" /\ c.rdy["TASK_Q"] = << >> THEN x ELSE c.proc_ptr
        BY ONLY ReadyFields, Typed(c), x \in Procs
      <3> QED
        BY <2>1, <3>1
    <2>4. Waits(b)
      BY <2>3, SameWaitsWaits DEF SameTables
    <2>5. ASSUME NEW p \in Procs \ {x}, First(c, p), x \in USERS => p \notin USERS
          PROVE  First(b, p)
      <3>1. QueueOf(p) \in Queues /\ QueueOf(x) \in Queues
        BY QueueOfType
      <3>2. CASE QueueOf(p) # QueueOf(x)
        BY <2>3, <2>5, <3>1, <3>2 DEF First
      <3>3. CASE QueueOf(p) = QueueOf(x)
        <4>1. QueueOf(x) # "USER_Q"
          BY <2>5, <3>3, NotProcs
        <4>2. c.rdy[QueueOf(x)] \in Seq(Procs) /\ c.rdy[QueueOf(x)] # << >>
          BY <2>5, <3>1, <3>3 DEF Typed, First
        <4>3. b.rdy[QueueOf(x)] = Append(c.rdy[QueueOf(x)], x)
          BY <2>3, <4>1
        <4>4. /\ b.rdy[QueueOf(x)] # << >>
              /\ Head(b.rdy[QueueOf(x)]) = Head(c.rdy[QueueOf(x)])
          BY <4>2, <4>3, HeadTailAppend, AppendProperties
        <4> QED
          BY <2>3, <2>5, <3>3, <4>2, <4>4 DEF First
      <3> QED
        BY <3>2, <3>3
    <2>6. ASSUME HighestRuns(c), x \in TASKS \/ \E p \in Procs \ USERS : First(c, p)
          PROVE  HighestRuns(b)
      <3>1. c.rdy["TASK_Q"] \in Seq(Procs) /\ c.rdy["SERVER_Q"] \in Seq(Procs)
        BY DEF Typed, Queues
      <3>2. QueueOf(x) = "TASK_Q" \/ c.rdy["TASK_Q"] # << >> \/ c.rdy["SERVER_Q"] # << >>
        BY <2>6, NotProcs, QueueOfType DEF First, Queues
      <3>3. QueueOf(x) = "TASK_Q" \/ c.rdy["TASK_Q"] \o c.rdy["SERVER_Q"] # << >>
        BY <3>1, <3>2, ConcatEqualIffEmpty
      <3>4. QueueOf(x) \in {"TASK_Q", "SERVER_Q", "USER_Q"}
        BY QueueOfType DEF Queues
      <3> QED
        BY <1>2, <2>1, <2>6, <3>3, <3>4, ReadyQueues DEF HighestRuns
    <2> QED
      BY <2>2, <2>3, <2>4, <2>5, <2>6 DEF Core, b
  <1> QED
    BY <1>1, <1>2

\* A process that will wait leaves its queue.
LEMMA UnreadyCore ==
    ASSUME NEW a, Core(a), NEW p \in Procs
    PROVE  LET b == UnreadyIfRunnable(a, p) IN
           /\ Typed(b) /\ Waits(b) /\ QueuesWithout(b, p) /\ SameTables(a, b)
           /\ HighestRuns(a) \/ (Runnable(a, p) /\ First(a, p)) => HighestRuns(b)
  <1> DEFINE b == UnreadyIfRunnable(a, p)
  <1>1. CASE ~Runnable(a, p)
    <2>1. b = a
      BY <1>1 DEF UnreadyIfRunnable
    <2>2. QueuesWithout(a, p)
      BY <1>1 DEF Core, Typed, QueuesHoldRunnable, QueuesWithout
    <2> QED
      BY <1>1, <2>1, <2>2 DEF Core, SameTables, SameWaits, SameDomains
  <1>2. CASE Runnable(a, p)
    <2>1. b = unready(a, p)
      BY <1>2 DEF UnreadyIfRunnable
    <2> HIDE DEF b
    <2>2. Typed(b) /\ QueuesWithout(b, p)
      BY <2>1, UnreadyQueues DEF Core
    <2>3. SameTables(a, b) /\ Waits(b)
      BY <2>1, UnreadyFields, SameWaitsWaits DEF Core, SameTables
    <2>4. HighestRuns(a) \/ First(a, p) => HighestRuns(b)
      BY <2>1, UnreadyQueues DEF Core, HighestRuns, First
    <2> QED
      BY <1>2, <2>2, <2>3, <2>4 DEF b
  <1> QED
    BY <1>1, <1>2

-----------------------------------------------------------------------------
(* Messages.                                                                 *)

\* Processes are in use, stopped and signalled in b as in a.
SameSignals(a, b) ==
    /\ b.in_use = a.in_use /\ b.p_flags = a.p_flags /\ b.sig_procs = a.sig_procs
    /\ b.p_pending = a.p_pending /\ b.p_pendcount = a.p_pendcount

\* In b dest has got m, and waits no longer.
Delivered(a, b, dest, m) ==
    /\ SameSignals(a, b)
    /\ b.p_getfrom = [a.p_getfrom EXCEPT ![dest] = NONE] /\ b.p_sendto = a.p_sendto
    /\ b.inbox = [a.inbox EXCEPT ![dest] = m] /\ b.p_messbuf = a.p_messbuf

\* In b p waits for dest to take m.
WaitsToSend(a, b, p, dest, m) ==
    /\ SameSignals(a, b)
    /\ b.p_getfrom = a.p_getfrom /\ b.p_sendto = [a.p_sendto EXCEPT ![p] = dest]
    /\ b.inbox = a.inbox /\ b.p_messbuf = [a.p_messbuf EXCEPT ![p] = m]

\* In b p has the message of a sender that no longer waits to send.
TookFrom(a, b, p, sender) ==
    /\ SameSignals(a, b)
    /\ b.p_getfrom = a.p_getfrom /\ b.p_sendto = [a.p_sendto EXCEPT ![sender] = NONE]
    /\ b.inbox = [a.inbox EXCEPT ![p] = a.p_messbuf[sender]]
    /\ b.p_messbuf = [a.p_messbuf EXCEPT ![sender] = NoMessage]

\* In b p has the interrupt that was blocked.
TookInterrupt(a, b, p) ==
    /\ SameSignals(a, b)
    /\ b.p_getfrom = a.p_getfrom /\ b.p_sendto = a.p_sendto
    /\ b.inbox = [a.inbox EXCEPT ![p] = Message(HARDWARE, "HARD_INT")]
    /\ b.p_messbuf = a.p_messbuf

\* In b p waits for a message of src.
WaitsFor(a, b, p, src) ==
    /\ SameSignals(a, b)
    /\ b.p_getfrom = [a.p_getfrom EXCEPT ![p] = src] /\ b.p_sendto = a.p_sendto
    /\ b.inbox = a.inbox /\ b.p_messbuf = a.p_messbuf

\* dest gets what it waits for.
LEMMA DeliverCore ==
    ASSUME NEW a, Core(a), NEW p \in Procs \cup {HARDWARE}, NEW dest \in Procs,
           InUse(a, dest), Awaits(a, dest, p), NEW m
    PROVE  LET b == Deliver(a, dest, m) IN
           /\ Core(b) /\ Delivered(a, b, dest, m)
           /\ \A y \in Procs \ {dest} :
                First(a, y) /\ (dest \in USERS => y \notin USERS) => First(b, y)
           /\ \A y \in Procs \ USERS : First(a, y) /\ HighestRuns(a) => HighestRuns(b)
  <1> DEFINE c == [a EXCEPT !.inbox[dest] = m, !.p_getfrom[dest] = NONE]
             b == ReadyIfRunnable(c, dest)
  <1>1. Typed(a) /\ QueuesHoldRunnable(a) /\ Waits(a)
    BY DEF Core
  <1>2. /\ DOMAIN c = DOMAIN a /\ c.p_getfrom = [a.p_getfrom EXCEPT ![dest] = NONE]
        /\ c.p_flags = a.p_flags /\ c.sig_procs = a.sig_procs /\ c.p_sendto = a.p_sendto
        /\ c.p_callerq = a.p_callerq /\ c.rdy = a.rdy /\ c.in_use = a.in_use
        /\ c.int_blocked = a.int_blocked /\ c.proc_ptr = a.proc_ptr
        /\ SameDomains(a, c) /\ Delivered(a, c, dest, m)
    BY <1>1 DEF Typed, Fields, SameDomains, Delivered, SameSignals
  <1>3. Deliver(a, dest, m) = b
    BY DEF Deliver
  <1> HIDE DEF c
  <1>4. /\ a.p_getfrom[dest] # NONE /\ a.p_sendto[dest] = NONE
        /\ c.p_getfrom[dest] = NONE
        /\ \A y \in Procs \ {dest} : c.p_getfrom[y] = a.p_getfrom[y]
    BY <1>1, <1>2, NotProcs DEF Awaits, Typed
  <1>5. Typed(c) /\ OneWaits(a, c, dest)
    BY <1>1, <1>2 DEF Typed, OneWaits, SameDomains
  <1>6. Waits(c)
    <2>1. CallersAreSenders(c) /\ NoRing(c) /\ \A u \in USERS : c.p_callerq[u] = << >>
      <3>1. CallersAreSenders(c)
        BY <1>1, <1>2 DEF Waits, CallersAreSenders
      <3>2. NoRing(c)
        BY <1>1, <1>2 DEF Waits, NoRing
      <3> QED
        BY <1>1, <1>2, <3>1, <3>2 DEF Waits
    <2>2. \A u \in USERS \ c.in_use : Runnable(c, u)
      BY <1>1, <1>2, <1>4 DEF Waits, Runnable, Procs
    <2>3. \A y \in Procs : c.p_sendto[y] # NONE /\ c.p_getfrom[y] # NONE =>
                               c.p_getfrom[y] = c.p_sendto[y]
      BY <1>1, <1>2, <1>4 DEF Waits
    <2>4. NobodyWaitsInVain(c)
      BY <1>1, <1>2, <1>4 DEF Waits, NobodyWaitsInVain, Acceptable
    <2> QED
      BY <2>1, <2>2, <2>3, <2>4 DEF Waits
  <1>7. QueuesWithout(c, dest) /\ InUse(c, dest)
    BY <1>1, <1>4, <1>5, OneWaitsQueues DEF Runnable
  <1>8. \A y : (First(a, y) <=> First(c, y)) /\ (HighestRuns(a) <=> HighestRuns(c))
    BY <1>2 DEF First, HighestRuns
  <1>9. /\ Core(b) /\ SameTables(c, b)
        /\ \A y \in Procs \ {dest} :
             First(c, y) /\ (dest \in USERS => y \notin USERS) => First(b, y)
        /\ \A y \in Procs \ USERS : First(c, y) /\ HighestRuns(c) => HighestRuns(b)
    BY <1>5, <1>6, <1>7, ReadyCore
  <1> HIDE DEF b
  <1> QED
    BY <1>2, <1>3, <1>8, <1>9 DEF SameTables, SameWaits, Delivered, SameSignals

\* p waits until dest takes its message; no ring comes of it.
LEMMA BlockSendingCore ==
    ASSUME NEW a, Core(a), NEW p \in Procs, Runnable(a, p), InUse(a, p), First(a, p),
           NEW dest \in Procs \ USERS, dest # p, ~Awaits(a, dest, p), ~Ring(a, p, dest), NEW m
    PROVE  LET c == BlockSending(a, p, dest, m) IN
           Core(c) /\ HighestRuns(c) /\ WaitsToSend(a, c, p, dest, m)
  <1> DEFINE b == UnreadyIfRunnable(a, p)
             c == BlockSending(a, p, dest, m)
  <1>1. /\ Typed(a) /\ QueuesHoldRunnable(a) /\ Waits(a)
        /\ a.p_getfrom[p] = NONE /\ a.p_sendto[p] = NONE
    BY DEF Core, Runnable
  <1>2. /\ Typed(b) /\ Waits(b) /\ QueuesWithout(b, p) /\ SameTables(a, b)
        /\ HighestRuns(b)
    BY UnreadyCore
  <1>3. c = [b EXCEPT !.p_messbuf[p] = m, !.p_sendto[p] = dest,
                      !.p_callerq[dest] = Append(@, p)]
    BY DEF BlockSending
  <1> HIDE DEF b, c
  <1>4. /\ DOMAIN c = DOMAIN b /\ c.p_getfrom = b.p_getfrom
        /\ c.p_flags = b.p_flags /\ c.sig_procs = b.sig_procs
        /\ c.p_sendto = [b.p_sendto EXCEPT ![p] = dest]
        /\ c.p_callerq = [b.p_callerq EXCEPT ![dest] = Append(@, p)]
        /\ c.rdy = b.rdy /\ c.in_use = b.in_use
        /\ c.int_blocked = b.int_blocked /\ c.proc_ptr = b.proc_ptr
        /\ SameDomains(b, c) /\ WaitsToSend(b, c, p, dest, m)
    BY <1>2, <1>3 DEF Typed, Fields, SameDomains, WaitsToSend, SameSignals
  <1>5. /\ b.p_getfrom = a.p_getfrom /\ b.p_sendto = a.p_sendto /\ b.in_use = a.in_use
        /\ b.p_callerq = a.p_callerq
    BY <1>2 DEF SameTables, SameWaits
  <1>6. /\ c.p_sendto[p] = dest /\ \A y \in Procs \ {p} : c.p_sendto[y] = b.p_sendto[y]
        /\ b.p_sendto[p] = NONE /\ b.p_getfrom[p] = NONE /\ c.p_getfrom[p] = NONE
    BY <1>1, <1>2, <1>4, <1>5 DEF Typed
  <1>7. /\ b.p_callerq[dest] \in Seq(Procs) /\ p \notin Members(b.p_callerq[dest])
        /\ NoRepetition(b.p_callerq[dest])
    BY <1>2, <1>6, NotProcs DEF Typed, Waits, CallersAreSenders
  <1>8. /\ c.p_callerq[dest] \in Seq(Procs) /\ NoRepetition(c.p_callerq[dest])
        /\ Members(c.p_callerq[dest]) = Members(b.p_callerq[dest]) \cup {p}
        /\ \A i \in DOMAIN c.p_callerq[dest] :
             \/ i \in DOMAIN b.p_callerq[dest] /\ c.p_callerq[dest][i] = b.p_callerq[dest][i]
             \/ c.p_callerq[dest][i] = p
        /\ \A d \in Procs \ {dest} : c.p_callerq[d] = b.p_callerq[d]
    <2>1. /\ c.p_callerq[dest] = Append(b.p_callerq[dest], p)
          /\ \A d \in Procs \ {dest} : c.p_callerq[d] = b.p_callerq[d]
      BY <1>2, <1>4 DEF Typed
    <2> QED
      BY <1>7, <2>1, AppendKeeps
  <1>9. Typed(c) /\ OneWaits(b, c, p) /\ HighestRuns(c)
    <2>1. c.p_callerq \in [Procs -> Seq(Procs)]
      BY <1>2, <1>4, <1>8 DEF Typed
    <2> QED
      BY <1>2, <1>4, <1>6, <2>1 DEF Typed, OneWaits, HighestRuns, SameDomains
  <1>10. QueuesHoldRunnable(c)
    <2>1. ~Runnable(c, p)
      BY <1>6, NotProcs DEF Runnable
    <2> QED
      BY <1>2, <1>9, <2>1, OneWaitsQueues
  <1>11. Waits(c)
    <2>1. CallersAreSenders(c)
      <3> SUFFICES ASSUME NEW d \in Procs
                   PROVE  /\ NoRepetition(c.p_callerq[d])
                          /\ Members(c.p_callerq[d]) = {x \in Procs : c.p_sendto[x] = d}
        BY DEF CallersAreSenders
      <3>1. /\ NoRepetition(b.p_callerq[d])
            /\ Members(b.p_callerq[d]) = {x \in Procs : b.p_sendto[x] = d}
        BY <1>2 DEF Waits, CallersAreSenders
      <3>2. CASE d = dest
        BY <1>6, <1>8, <3>1, <3>2
      <3>3. CASE d # dest
        BY <1>6, <1>8, <3>1, <3>3, NotProcs
      <3> QED
        BY <3>2, <3>3
    <2>2. \A u \in USERS : c.p_callerq[u] = << >>
      BY <1>2, <1>8 DEF Waits, Procs
    <2>3. \A u \in USERS \ c.in_use : Runnable(c, u)
      BY <1>2, <1>4, <1>5, <1>6 DEF Waits, Runnable, InUse, Procs
    <2>4. \A y \in Procs : c.p_sendto[y] # NONE /\ c.p_getfrom[y] # NONE =>
                               c.p_getfrom[y] = c.p_sendto[y]
      BY <1>2, <1>4, <1>6 DEF Waits
    <2>5. NobodyWaitsInVain(c)
      <3> SUFFICES ASSUME NEW y \in Procs, c.p_getfrom[y] # NONE, c.p_sendto[y] = NONE
                   PROVE  /\ Acceptable(c, y, c.p_getfrom[y]) = {}
                          /\ y \in c.int_blocked => c.p_getfrom[y] \notin {ANY, HARDWARE}
        BY DEF NobodyWaitsInVain
      <3>1. /\ y # p /\ b.p_sendto[y] = NONE /\ b.p_getfrom[y] # NONE
            /\ c.p_getfrom[y] = b.p_getfrom[y]
        BY <1>4, <1>6
      <3>2. /\ Acceptable(b, y, b.p_getfrom[y]) = {}
            /\ y \in b.int_blocked => b.p_getfrom[y] \notin {ANY, HARDWARE}
        BY <1>2, <3>1 DEF Waits, NobodyWaitsInVain
      <3>3. Acceptable(c, y, c.p_getfrom[y]) = {}
        <4>1. CASE y # dest
          BY <1>8, <3>1, <3>2, <4>1 DEF Acceptable
        <4>2. CASE y = dest
          <5>1. b.p_getfrom[dest] \notin {ANY, p}
            BY <1>5, <3>1, <4>2 DEF Awaits
          <5> QED
            BY <1>8, <3>1, <3>2, <4>2, <5>1 DEF Acceptable
        <4> QED
          BY <4>1, <4>2
      <3> QED
        BY <1>4, <3>1, <3>2, <3>3
    <2>6. NoRing(c)
      <3> SUFFICES ASSUME NEW S \in SUBSET Procs, S # {}, \A y \in S : c.p_sendto[y] \in S
                   PROVE  FALSE
        BY DEF NoRing
      <3>1. p \in S
        BY <1>2, <1>6 DEF Waits, NoRing
      <3>2. dest \in S
        BY <1>6, <3>1
      <3>3. PICK T \in SUBSET Procs :
              /\ dest \in T /\ \A q \in T : b.p_sendto[q] \in T \cup {NONE}
              /\ \A q \in T : b.p_sendto[q] # p
        BY <1>5 DEF Ring
      <3> DEFINE U == (S \cap T) \ {p}
      <3>4. U \in SUBSET Procs /\ U # {}
        BY <3>2, <3>3
      <3>5. \A q \in U : b.p_sendto[q] \in U
        BY <1>6, <3>3, NotProcs
      <3> HIDE DEF U
      <3> QED
        BY <1>2, <3>4, <3>5 DEF Waits, NoRing
    <2> QED
      BY <2>1, <2>2, <2>3, <2>4, <2>5, <2>6 DEF Waits
  <1>12. WaitsToSend(a, c, p, dest, m)
    BY <1>2, <1>4 DEF WaitsToSend, SameSignals, SameTables, SameWaits
  <1> QED
    BY <1>9, <1>10, <1>11, <1>12 DEF Core, c

\* p takes the message of a process that waits to send to it.
LEMMA TakeFromCore ==
    ASSUME NEW a, Core(a), HighestRuns(a), NEW p \in Procs \ USERS, Free(a, p), First(a, p),
           NEW i \in DOMAIN a.p_callerq[p]
    PROVE  LET b == TakeFrom(a, p, a.p_callerq[p][i]) IN
           Core(b) /\ HighestRuns(b) /\ TookFrom(a, b, p, a.p_callerq[p][i])
  <1> DEFINE sender == a.p_callerq[p][i]
             c == [a EXCEPT !.inbox[p] = a.p_messbuf[sender],
                            !.p_messbuf[sender] = NoMessage,
                            !.p_sendto[sender] = NONE,
                            !.p_callerq[p] = Without(@, sender)]
             b == ReadyIfRunnable(c, sender)
  <1>1. /\ Typed(a) /\ QueuesHoldRunnable(a) /\ Waits(a)
        /\ a.p_getfrom[p] = NONE /\ a.p_sendto[p] = NONE
    BY DEF Core, Free
  <1>2. sender \in Procs /\ a.p_sendto[sender] = p /\ sender \in Members(a.p_callerq[p])
    BY <1>1 DEF Waits, CallersAreSenders, Members
  <1>3. TakeFrom(a, p, sender) = b
    BY DEF TakeFrom
  <1>4. /\ DOMAIN c = DOMAIN a /\ c.p_getfrom = a.p_getfrom
        /\ c.p_flags = a.p_flags /\ c.sig_procs = a.sig_procs
        /\ c.p_sendto = [a.p_sendto EXCEPT ![sender] = NONE]
        /\ c.p_callerq = [a.p_callerq EXCEPT ![p] = Without(@, sender)]
        /\ c.rdy = a.rdy /\ c.in_use = a.in_use
        /\ c.int_blocked = a.int_blocked /\ c.proc_ptr = a.proc_ptr
        /\ SameDomains(a, c) /\ TookFrom(a, c, p, sender)
    BY <1>1 DEF Typed, Fields, SameDomains, TookFrom, SameSignals
  <1> HIDE DEF c, sender
  <1>5. /\ c.p_sendto[sender] = NONE
        /\ \A y \in Procs \ {sender} : c.p_sendto[y] = a.p_sendto[y]
        /\ sender # p /\ p # NONE
    BY <1>1, <1>2, <1>4, NotProcs DEF Typed
  <1>6. /\ c.p_callerq[p] \in Seq(Procs) /\ NoRepetition(c.p_callerq[p])
        /\ Members(c.p_callerq[p]) = Members(a.p_callerq[p]) \ {sender}
        /\ \A d \in Procs \ {p} : c.p_callerq[d] = a.p_callerq[d]
    <2>1. /\ a.p_callerq[p] \in Seq(Procs) /\ NoRepetition(a.p_callerq[p])
          /\ c.p_callerq[p] = Without(a.p_callerq[p], sender)
          /\ \A d \in Procs \ {p} : c.p_callerq[d] = a.p_callerq[d]
      BY <1>1, <1>4 DEF Typed, Waits, CallersAreSenders
    <2> QED
      BY <2>1, WithoutProperties
  <1>7. Typed(c) /\ OneWaits(a, c, sender)
    <2>1. c.p_callerq \in [Procs -> Seq(Procs)]
      <3>1. a.p_callerq \in [Procs -> Seq(Procs)]
        BY <1>1 DEF Typed
      <3>2. c.p_callerq = [a.p_callerq EXCEPT ![p] = Without(@, sender)]
        BY <1>4
      <3>3. c.p_callerq[p] \in Seq(Procs)
        BY <1>6
      <3> QED
        BY ONLY <3>1, <3>2, <3>3
    <2>2. c.p_sendto \in [Procs -> Procs \cup {NONE}]
      <3>1. a.p_sendto \in [Procs -> Procs \cup {NONE}]
        BY <1>1 DEF Typed
      <3>2. c.p_sendto = [a.p_sendto EXCEPT ![sender] = NONE]
        BY <1>4
      <3> QED
        BY ONLY <3>1, <3>2
    <2>3. Typed(c)
      BY <1>1, <1>4, <2>1, <2>2 DEF Typed, SameDomains
    <2>4. OneWaits(a, c, sender)
      BY <1>4, <1>5 DEF OneWaits
    <2> QED
      BY <2>3, <2>4
  <1>8. QueuesWithout(c, sender)
    <2>1. ~Runnable(a, sender)
      BY <1>2, <1>5 DEF Runnable
    <2> QED
      BY <1>1, <1>2, <1>7, <2>1, OneWaitsQueues
  <1>9. InUse(c, sender)
    BY <1>1, <1>2, <1>4, <1>5 DEF Waits, Runnable, InUse
  <1>10. Waits(c)
    <2>1. CallersAreSenders(c)
      <3> SUFFICES ASSUME NEW d \in Procs
                   PROVE  /\ NoRepetition(c.p_callerq[d])
                          /\ Members(c.p_callerq[d]) = {x \in Procs : c.p_sendto[x] = d}
        BY DEF CallersAreSenders
      <3>1. /\ NoRepetition(a.p_callerq[d])
            /\ Members(a.p_callerq[d]) = {x \in Procs : a.p_sendto[x] = d}
        BY <1>1 DEF Waits, CallersAreSenders
      <3>2. CASE d = p
        BY <1>5, <1>6, <3>1, <3>2
      <3>3. CASE d # p
        BY <1>2, <1>5, <1>6, <3>1, <3>3, NotProcs
      <3> QED
        BY <3>2, <3>3
    <2>2. \A u \in USERS : c.p_callerq[u] = << >>
      BY <1>1, <1>6 DEF Waits, Procs
    <2>3. \A u \in USERS \ c.in_use : Runnable(c, u)
      BY <1>1, <1>4, <1>5 DEF Waits, Runnable, Procs
    <2>4. \A y \in Procs : c.p_sendto[y] # NONE /\ c.p_getfrom[y] # NONE =>
                               c.p_getfrom[y] = c.p_sendto[y]
      BY <1>1, <1>4, <1>5 DEF Waits
    <2>5. NobodyWaitsInVain(c)
      <3> SUFFICES ASSUME NEW y \in Procs, c.p_getfrom[y] # NONE, c.p_sendto[y] = NONE
                   PROVE  /\ Acceptable(c, y, c.p_getfrom[y]) = {}
                          /\ y \in c.int_blocked => c.p_getfrom[y] \notin {ANY, HARDWARE}
        BY DEF NobodyWaitsInVain
      <3>1. y # p /\ c.p_callerq[y] = a.p_callerq[y] /\ c.p_getfrom[y] = a.p_getfrom[y]
        BY <1>1, <1>4, <1>6
      <3>2. CASE y # sender
        <4>1. /\ Acceptable(a, y, a.p_getfrom[y]) = {}
              /\ y \in a.int_blocked => a.p_getfrom[y] \notin {ANY, HARDWARE}
          BY <1>1, <1>5, <3>1, <3>2 DEF Waits, NobodyWaitsInVain
        <4> QED
          BY <1>4, <3>1, <4>1 DEF Acceptable
      <3>3. CASE y = sender
        <4>1. a.p_getfrom[y] = p
          BY <1>1, <1>2, <1>5, <3>1, <3>3 DEF Waits
        <4>2. p \notin Members(a.p_callerq[y])
          BY <1>1, NotProcs DEF Waits, CallersAreSenders
        <4>3. p \notin {ANY, HARDWARE}
          BY NotProcs
        <4> QED
          BY <3>1, <4>1, <4>2, <4>3 DEF Acceptable, Members
      <3> QED
        BY <3>2, <3>3
    <2>6. NoRing(c)
      <3> SUFFICES ASSUME NEW S \in SUBSET Procs, S # {}, \A y \in S : c.p_sendto[y] \in S
                   PROVE  FALSE
        BY DEF NoRing
      <3>1. sender \notin S
        BY <1>5, NotProcs
      <3>2. \A y \in S : a.p_sendto[y] \in S
        BY <1>5, <3>1
      <3> QED
        BY <1>1, <3>2 DEF Waits, NoRing
    <2> QED
      BY <2>1, <2>2, <2>3, <2>4, <2>5, <2>6 DEF Waits
  <1>11. First(c, p) /\ HighestRuns(c)
    BY <1>4 DEF First, HighestRuns
  <1>12. Core(b) /\ SameTables(c, b) /\ HighestRuns(b)
    BY <1>2, <1>7, <1>8, <1>9, <1>10, <1>11, ReadyCore
  <1> HIDE DEF b
  <1> QED
    BY <1>3, <1>4, <1>12 DEF SameTables, SameWaits, TookFrom, SameSignals, sender

\* BlockReceiving but for the signals that MM is told of.
Asleep(a, p, src) == [UnreadyIfRunnable(a, p) EXCEPT !.p_getfrom[p] = src]

\* MM receives while there is a signal it has not been told of.
ToBeTold(a, p, src) == a.sig_procs > 0 /\ p = MM /\ src = ANY

\* p waits for a message of src.
LEMMA AsleepCore ==
    ASSUME NEW a, Core(a), NEW p \in Procs, InUse(a, p),
           a.p_getfrom[p] = NONE, p \in USERS => a.p_flags[p] = {},
           NEW src \in Procs \cup {ANY, HARDWARE},
           a.p_sendto[p] # NONE => a.p_sendto[p] = src,
           a.p_sendto[p] = NONE =>
             /\ First(a, p) /\ Acceptable(a, p, src) = {}
             /\ p \in a.int_blocked => src \notin {ANY, HARDWARE},
           a.p_sendto[p] # NONE => HighestRuns(a)
    PROVE  LET c == Asleep(a, p, src) IN
           Core(c) /\ HighestRuns(c) /\ WaitsFor(a, c, p, src)
  <1> DEFINE b == UnreadyIfRunnable(a, p)
             c == [b EXCEPT !.p_getfrom[p] = src]
  <1>1. Typed(a) /\ QueuesHoldRunnable(a) /\ Waits(a)
    BY DEF Core
  <1>2. Asleep(a, p, src) = c
    BY DEF Asleep
  <1>3. Runnable(a, p) <=> a.p_sendto[p] = NONE
    BY <1>1, RunnableIsFree DEF Free
  <1>4. /\ Typed(b) /\ Waits(b) /\ QueuesWithout(b, p) /\ SameTables(a, b)
        /\ HighestRuns(b)
    BY <1>3, UnreadyCore
  <1> HIDE DEF b
  <1>5. /\ DOMAIN c = DOMAIN b /\ c.p_getfrom = [b.p_getfrom EXCEPT ![p] = src]
        /\ c.p_flags = b.p_flags /\ c.sig_procs = b.sig_procs
        /\ c.p_sendto = b.p_sendto /\ c.p_callerq = b.p_callerq
        /\ c.rdy = b.rdy /\ c.in_use = b.in_use
        /\ c.int_blocked = b.int_blocked /\ c.proc_ptr = b.proc_ptr
        /\ SameDomains(b, c) /\ WaitsFor(b, c, p, src)
    BY <1>4 DEF Typed, Fields, SameDomains, WaitsFor, SameSignals
  <1> HIDE DEF c
  <1>6. /\ b.p_getfrom = a.p_getfrom /\ b.p_sendto = a.p_sendto /\ b.in_use = a.in_use
        /\ b.p_callerq = a.p_callerq /\ b.int_blocked = a.int_blocked
    BY <1>4 DEF SameTables, SameWaits
  <1>7. /\ c.p_getfrom[p] = src /\ src # NONE
        /\ \A y \in Procs \ {p} : c.p_getfrom[y] = b.p_getfrom[y]
    BY <1>4, <1>5, NotProcs DEF Typed
  <1>8. Typed(c) /\ OneWaits(b, c, p) /\ HighestRuns(c)
    BY <1>4, <1>5, <1>7 DEF Typed, OneWaits, HighestRuns, SameDomains
  <1>9. QueuesHoldRunnable(c)
    <2>1. ~Runnable(c, p)
      BY <1>7 DEF Runnable
    <2> QED
      BY <1>4, <1>8, <2>1, OneWaitsQueues
  <1>10. Waits(c)
    <2>1. CallersAreSenders(c) /\ \A u \in USERS : c.p_callerq[u] = << >>
      BY <1>4, <1>5 DEF Waits, CallersAreSenders
    <2>2. NoRing(c)
      BY <1>4, <1>5 DEF Waits, NoRing
    <2>3. \A u \in USERS \ c.in_use : Runnable(c, u)
      BY <1>4, <1>5, <1>6, <1>7 DEF Waits, Runnable, InUse, Procs
    <2>4. \A y \in Procs : c.p_sendto[y] # NONE /\ c.p_getfrom[y] # NONE =>
                               c.p_getfrom[y] = c.p_sendto[y]
      BY <1>4, <1>5, <1>6, <1>7 DEF Waits
    <2>5. NobodyWaitsInVain(c)
      <3> SUFFICES ASSUME NEW y \in Procs, c.p_getfrom[y] # NONE, c.p_sendto[y] = NONE
                   PROVE  /\ Acceptable(c, y, c.p_getfrom[y]) = {}
                          /\ y \in c.int_blocked => c.p_getfrom[y] \notin {ANY, HARDWARE}
        BY DEF NobodyWaitsInVain
      <3>1. CASE y = p
        BY <1>5, <1>6, <1>7, <3>1 DEF Acceptable
      <3>2. CASE y # p
        <4>1. /\ Acceptable(b, y, b.p_getfrom[y]) = {}
              /\ y \in b.int_blocked => b.p_getfrom[y] \notin {ANY, HARDWARE}
          BY <1>4, <1>5, <1>7, <3>2 DEF Waits, NobodyWaitsInVain
        <4> QED
          BY <1>5, <1>7, <3>2, <4>1 DEF Acceptable
      <3> QED
        BY <3>1, <3>2
    <2> QED
      BY <2>1, <2>2, <2>3, <2>4, <2>5 DEF Waits
  <1>11. WaitsFor(a, c, p, src)
    BY <1>4, <1>5 DEF WaitsFor, SameSignals, SameTables, SameWaits
  <1> QED
    BY <1>2, <1>8, <1>9, <1>10, <1>11 DEF Core

\* p takes an interrupt that was blocked.
LEMMA TakeInterruptCore ==
    ASSUME NEW a, Core(a), HighestRuns(a), NEW p
    PROVE  LET c == TakeInterrupt(a, p) IN
           Core(c) /\ HighestRuns(c) /\ TookInterrupt(a, c, p)
  <1> DEFINE c == TakeInterrupt(a, p)
  <1>1. Typed(a) /\ QueuesHoldRunnable(a) /\ Waits(a)
    BY DEF Core
  <1>2. /\ DOMAIN c = DOMAIN a /\ c.p_getfrom = a.p_getfrom
        /\ c.p_flags = a.p_flags /\ c.sig_procs = a.sig_procs
        /\ c.p_sendto = a.p_sendto /\ c.p_callerq = a.p_callerq
        /\ c.rdy = a.rdy /\ c.in_use = a.in_use
        /\ c.int_blocked = a.int_blocked \ {p} /\ c.proc_ptr = a.proc_ptr
        /\ SameDomains(a, c) /\ TookInterrupt(a, c, p)
    BY <1>1 DEF Typed, Fields, TakeInterrupt, SameDomains, TookInterrupt, SameSignals
  <1> HIDE DEF c
  <1>3. Typed(c) /\ HighestRuns(c)
    BY <1>1, <1>2 DEF Typed, HighestRuns, SameDomains
  <1>4. QueuesHoldRunnable(c)
    BY <1>1, <1>2 DEF QueuesHoldRunnable, InUse, Runnable
  <1>5. Waits(c)
    <2>1. CallersAreSenders(c) /\ \A u \in USERS : c.p_callerq[u] = << >>
      BY <1>1, <1>2 DEF Waits, CallersAreSenders
    <2>2. NoRing(c)
      BY <1>1, <1>2 DEF Waits, NoRing
    <2>3. NobodyWaitsInVain(c)
      BY <1>1, <1>2 DEF Waits, NobodyWaitsInVain, Acceptable
    <2> QED
      BY <1>1, <1>2, <2>1, <2>2, <2>3 DEF Waits, Runnable
  <1> QED
    BY <1>2, <1>3, <1>4, <1>5 DEF Core, c

\* The process that runs is in use, waits for nothing and is the first of its queue.
LEMMA RunningProcess ==
    ASSUME NEW a, Core(a), HighestRuns(a), a.proc_ptr # IDLE
    PROVE  LET p == a.proc_ptr IN
           /\ p \in Procs /\ Runnable(a, p) /\ Free(a, p) /\ InUse(a, p) /\ First(a, p)
  <1>1. PICK q \in Queues : a.rdy[q] # << >> /\ a.proc_ptr = Head(a.rdy[q])
    BY DEF HighestRuns, Highest, Queues
  <1>2. a.rdy[q] \in Seq(Procs) /\ DOMAIN a.rdy = Queues
    BY DEF Core, Typed
  <1>3. a.proc_ptr \in Members(a.rdy[q])
    <2>1. 1 \in DOMAIN a.rdy[q] /\ Head(a.rdy[q]) = a.rdy[q][1]
      BY <1>1, <1>2, EmptySeq, LenProperties
    <2> QED
      BY <1>1, <2>1 DEF Members
  <1>4. /\ a.proc_ptr \in Procs /\ Runnable(a, a.proc_ptr) /\ InUse(a, a.proc_ptr)
        /\ QueueOf(a.proc_ptr) = q
    BY <1>2, <1>3 DEF Core, QueuesHoldRunnable
  <1> QED
    BY <1>1, <1>4 DEF First, Runnable, Free

\* There is a smallest number.
LEMMA SmallestIsIn ==
    ASSUME NEW T \in SUBSET Nat, T # {}
    PROVE  Smallest(T) \in T /\ \A y \in T : Smallest(T) <= y
  <1>1. PICK R : IsWellFoundedOn(R, Nat) /\ \A x, y \in Nat : x < y => <<x, y>> \in R
    <2>1. \A x, y \in Nat : x < y => <<x, y>> \in OpToRel(<, Nat)
      BY DEF OpToRel
    <2> QED
      BY <2>1, NatLessThanWellFounded
  <1>2. PICK x \in T : \A y \in T : ~(<<y, x>> \in R)
    <2>1. T \subseteq Nat /\ T # {} /\ IsWellFoundedOn(R, Nat)
      BY <1>1
    <2> QED
      BY <2>1, WFMin
  <1>3. \A y \in T : ~(y < x)
    BY <1>1, <1>2
  <1>4. \A y \in T : x <= y
    BY <1>3
  <1> QED
    BY <1>4 DEF Smallest

\* What mini_rec does: p takes a message or an interrupt that is there, or it waits.
Received(a, b, p, src) ==
    \/ \E sender \in Procs : /\ a.p_sendto[p] = NONE /\ a.p_sendto[sender] = p
                            /\ src \in {ANY, sender} /\ TookFrom(a, b, p, sender)
    \/ /\ a.p_sendto[p] = NONE /\ p \in a.int_blocked /\ src \in {ANY, HARDWARE}
       /\ TookInterrupt(a, b, p)
    \/ /\ a.p_sendto[p] = NONE => \A s \in Procs : a.p_sendto[s] = p => src \notin {ANY, s}
       /\ WaitsFor(a, b, p, src)

\* A process receives after it may have sent.
LEMMA ReceiveCore ==
    ASSUME NEW a, Core(a), NEW p \in Procs, InUse(a, p),
           a.p_getfrom[p] = NONE, p \in USERS => a.p_flags[p] = {},
           NEW src \in Procs \cup {ANY, HARDWARE},
           ToBeTold(a, p, src) => a.p_sendto[p] = NONE /\ Acceptable(a, p, src) # {},
           a.p_sendto[p] # NONE => a.p_sendto[p] = src,
           a.p_sendto[p] = NONE => First(a, p),
           p \notin USERS \/ a.p_sendto[p] # NONE => HighestRuns(a)
    PROVE  LET b == mini_rec(a, p, src) IN
           Core(b) /\ HighestRuns(b) /\ Received(a, b, p, src)
  <1> DEFINE b == mini_rec(a, p, src)
  <1>1. Typed(a) /\ Waits(a)
    BY DEF Core
  <1>2. ~ToBeTold(a, p, src) => BlockReceiving(a, p, src) = Asleep(a, p, src)
    BY DEF BlockReceiving, Asleep, ToBeTold
  <1>3. \A s \in Procs : a.p_sendto[s] = p <=> s \in Members(a.p_callerq[p])
    BY <1>1 DEF Waits, CallersAreSenders
  <1>4. Acceptable(a, p, src) = {} =>
          \A s \in Procs : a.p_sendto[s] = p => src \notin {ANY, s}
    BY <1>3 DEF Acceptable, Members
  <1>5. CASE a.p_sendto[p] # NONE
    <2>1. b = Asleep(a, p, src)
      BY <1>2, <1>5 DEF mini_rec
    <2> HIDE DEF b
    <2>2. Core(b) /\ HighestRuns(b) /\ WaitsFor(a, b, p, src)
      BY <1>5, <2>1, AsleepCore
    <2>3. Received(a, b, p, src)
      BY <1>5, <2>2 DEF Received
    <2> QED
      BY <2>2, <2>3 DEF b
  <1>6. CASE a.p_sendto[p] = NONE /\ Acceptable(a, p, src) # {}
    <2> DEFINE i == Smallest(Acceptable(a, p, src))
    <2>1. b = TakeFrom(a, p, a.p_callerq[p][i])
      BY <1>6 DEF mini_rec
    <2>2. Acceptable(a, p, src) \subseteq DOMAIN a.p_callerq[p]
      BY DEF Acceptable
    <2>3. a.p_callerq[p] # << >> /\ p \notin USERS
      <3>1. a.p_callerq[p] # << >>
        BY <1>1, <1>6, <2>2 DEF Typed
      <3> QED
        BY <1>1, <3>1 DEF Waits
    <2>4. i \in Acceptable(a, p, src)
      <3>1. DOMAIN a.p_callerq[p] \in SUBSET Nat
        BY <1>1, LenProperties DEF Typed
      <3> QED
        BY <1>6, <2>2, <3>1, SmallestIsIn
    <2> HIDE DEF b, i
    <2>5. Core(b) /\ HighestRuns(b) /\ TookFrom(a, b, p, a.p_callerq[p][i])
      BY <1>6, <2>1, <2>2, <2>3, <2>4, TakeFromCore DEF Free
    <2>6. /\ src \in {ANY, a.p_callerq[p][i]} /\ a.p_callerq[p][i] \in Procs
          /\ a.p_callerq[p][i] \in Members(a.p_callerq[p])
      BY <1>1, <2>4 DEF Acceptable, Typed, Members
    <2>7. a.p_sendto[a.p_callerq[p][i]] = p
      BY <1>3, <2>6
    <2>8. Received(a, b, p, src)
      BY <1>6, <2>5, <2>6, <2>7 DEF Received
    <2> QED
      BY <2>5, <2>8 DEF b
  <1>7. CASE a.p_sendto[p] = NONE /\ Acceptable(a, p, src) = {}
    <2>1. CASE p \in a.int_blocked /\ src \in {ANY, HARDWARE}
      <3>1. b = TakeInterrupt(a, p)
        BY <1>7, <2>1 DEF mini_rec
      <3>2. p \notin USERS
        BY <1>1, <2>1, NotProcs DEF Typed
      <3> HIDE DEF b
      <3>3. Core(b) /\ HighestRuns(b) /\ TookInterrupt(a, b, p)
        BY <3>1, <3>2, TakeInterruptCore
      <3> QED
        BY <1>7, <2>1, <3>3 DEF Received, b
    <2>2. CASE ~(p \in a.int_blocked /\ src \in {ANY, HARDWARE})
      <3>1. b = Asleep(a, p, src)
        BY <1>2, <1>7, <2>2 DEF mini_rec
      <3> HIDE DEF b
      <3>2. Core(b) /\ HighestRuns(b) /\ WaitsFor(a, b, p, src)
        BY <1>7, <2>2, <3>1, AsleepCore
      <3> QED
        BY <1>4, <1>7, <3>2 DEF Received, b
    <2> QED
      BY <2>1, <2>2
  <1> QED
    BY <1>5, <1>6, <1>7

\* p may not send to dest.
Refused(a, p, dest) ==
    (p \in USERS /\ dest \notin SERVERS) \/ ~InUse(a, dest) \/ Ring(a, p, dest)

\* What mini_send does: it refuses, or dest gets m, or p waits.
Sent(a, b, p, dest, m) ==
    \/ Refused(a, p, dest) /\ b = a
    \/ ~Refused(a, p, dest) /\ Awaits(a, dest, p) /\ Delivered(a, b, dest, m)
    \/ ~Refused(a, p, dest) /\ ~Awaits(a, dest, p) /\ WaitsToSend(a, b, p, dest, m)

\* The process that runs sends: it is refused, goes on or waits.
LEMMA SendCore ==
    ASSUME NEW a, Core(a), HighestRuns(a), NEW p \in Procs, p = a.proc_ptr,
           NEW dest \in Procs, dest # p,
           p \notin USERS /\ dest \in USERS /\ InUse(a, dest) => a.p_getfrom[dest] = p,
           NEW m
    PROVE  LET b == mini_send(a, p, dest, m).k IN
           /\ Core(b) /\ Sent(a, b, p, dest, m) /\ SameSignals(a, b)
           /\ b.p_getfrom[p] = NONE /\ b.p_sendto[p] \in {NONE, dest}
           /\ b.p_sendto[p] = NONE => First(b, p)
           /\ p \notin USERS \/ b.p_sendto[p] # NONE => HighestRuns(b)
           /\ mini_send(a, p, dest, m).result = "OK" <=> ~Refused(a, p, dest)
  <1> DEFINE b == mini_send(a, p, dest, m).k
             r == mini_send(a, p, dest, m).result
  <1>1. /\ Runnable(a, p) /\ InUse(a, p) /\ First(a, p) /\ Typed(a) /\ Waits(a)
        /\ a.p_getfrom[p] = NONE /\ a.p_sendto[p] = NONE
    BY RunningProcess, NotProcs DEF Core, Free
  <1>2. CASE Refused(a, p, dest)
    <2>1. b = a /\ r # "OK"
      BY <1>2 DEF mini_send, Refused
    <2> QED
      BY <1>1, <1>2, <2>1 DEF Sent, SameSignals
  <1>3. CASE ~Refused(a, p, dest) /\ Awaits(a, dest, p)
    <2>1. b = Deliver(a, dest, m) /\ r = "OK"
      BY <1>3 DEF mini_send, Refused
    <2>2. (p \in USERS => dest \notin USERS) /\ InUse(a, dest)
      BY <1>3, SlotsAssumption DEF Refused
    <2> HIDE DEF b, r
    <2>3. /\ Core(b) /\ Delivered(a, b, dest, m)
          /\ First(b, p) /\ (p \notin USERS => HighestRuns(b))
      BY <1>1, <1>3, <2>1, <2>2, DeliverCore
    <2>4. b.p_getfrom[p] = NONE /\ b.p_sendto[p] = NONE /\ SameSignals(a, b)
      BY <1>1, <2>3 DEF Delivered, Typed
    <2>5. Sent(a, b, p, dest, m)
      BY <1>3, <2>3 DEF Sent
    <2> QED
      BY <1>3, <2>1, <2>3, <2>4, <2>5 DEF b, r
  <1>4. CASE ~Refused(a, p, dest) /\ ~Awaits(a, dest, p)
    <2>1. b = BlockSending(a, p, dest, m) /\ r = "OK"
      BY <1>4 DEF mini_send, Refused
    <2>2. dest \notin USERS
      <3> SUFFICES ASSUME dest \in USERS PROVE FALSE
        OBVIOUS
      <3>1. a.p_getfrom[dest] = p
        BY <1>4, SlotsAssumption DEF Refused
      <3>2. a.p_sendto[dest] = p
        BY <1>1, <1>4, <3>1, NotProcs DEF Awaits, Waits
      <3>3. Ring(a, p, dest)
        BY <3>2 DEF Ring
      <3> QED
        BY <1>4, <3>3 DEF Refused
    <2> HIDE DEF b, r
    <2>3. Core(b) /\ HighestRuns(b) /\ WaitsToSend(a, b, p, dest, m)
      BY <1>1, <1>4, <2>1, <2>2, BlockSendingCore DEF Refused
    <2>4. b.p_getfrom[p] = NONE /\ b.p_sendto[p] = dest /\ SameSignals(a, b)
      BY <1>1, <2>3 DEF WaitsToSend, Typed
    <2>5. Sent(a, b, p, dest, m)
      BY <1>4, <2>3 DEF Sent
    <2> QED
      BY <1>4, <2>1, <2>3, <2>4, <2>5, NotProcs DEF b, r
  <1> QED
    BY <1>2, <1>3, <1>4

-----------------------------------------------------------------------------
(* Calls, interrupts, processes that come and go.                            *)

\* What sys_call does for the process that runs.
Called(a, b, function, other, m) ==
    LET p == a.proc_ptr IN
    \/ p \in USERS /\ function # "BOTH" /\ b = a
    \/ function # "RECEIVE" /\ Refused(a, p, other) /\ b = a
    \/ function = "SEND" /\ ~Refused(a, p, other) /\ Sent(a, b, p, other, m)
    \/ function = "RECEIVE" /\ Received(a, b, p, other)
    \/ /\ function = "BOTH" /\ ~Refused(a, p, other)
       /\ \E c : Sent(a, c, p, other, m) /\ Received(c, b, p, other)

\* The process that runs makes a call.
LEMMA CallCore ==
    ASSUME NEW a, Core(a), HighestRuns(a), NEW p, p = a.proc_ptr, p # IDLE,
           NEW function \in {"SEND", "RECEIVE", "BOTH"},
           NEW other \in Procs \cup {ANY, HARDWARE}, ~ToBeTold(a, p, other),
           function = "RECEIVE" \/ (p \in USERS /\ function # "BOTH") \/ other \in Procs \ {p},
           function # "RECEIVE" /\ p \notin USERS /\ other \in USERS /\ InUse(a, other) =>
             a.p_getfrom[other] = p,
           NEW m
    PROVE  LET b == sys_call(a, function, other, m).k IN
           Core(b) /\ HighestRuns(b) /\ Called(a, b, function, other, m)
  <1> DEFINE b == sys_call(a, function, other, m).k
             c == mini_send(a, p, other, m).k
  <1>1. /\ p \in Procs /\ Runnable(a, p) /\ Free(a, p) /\ InUse(a, p) /\ First(a, p)
        /\ a.p_flags[p] = {} /\ a.p_getfrom[p] = NONE /\ a.p_sendto[p] = NONE
    BY RunningProcess DEF Runnable
  <1>2. CASE p \in USERS /\ function # "BOTH"
    <2>1. b = a
      BY <1>2 DEF sys_call
    <2> QED
      BY <1>2, <2>1 DEF Called
  <1>3. CASE function = "RECEIVE" /\ p \notin USERS
    <2>1. b = mini_rec(a, p, other)
      BY <1>3 DEF sys_call
    <2> HIDE DEF b
    <2>2. Core(b) /\ HighestRuns(b) /\ Received(a, b, p, other)
      BY <1>1, <1>3, <2>1, ReceiveCore
    <2> QED
      BY <1>3, <2>2 DEF Called, b
  <1>4. CASE function \in {"SEND", "BOTH"} /\ ~(p \in USERS /\ function # "BOTH")
    <2>1. other \in Procs /\ other # p
      BY <1>4
    <2>2. /\ Core(c) /\ Sent(a, c, p, other, m) /\ SameSignals(a, c)
          /\ c.p_getfrom[p] = NONE /\ c.p_sendto[p] \in {NONE, other}
          /\ c.p_sendto[p] = NONE => First(c, p)
          /\ p \notin USERS \/ c.p_sendto[p] # NONE => HighestRuns(c)
          /\ mini_send(a, p, other, m).result = "OK" <=> ~Refused(a, p, other)
      BY <1>1, <1>4, <2>1, SendCore
    <2>3. CASE Refused(a, p, other)
      <3>1. c = a
        BY <2>2, <2>3 DEF Sent
      <3>2. b = a
        BY <1>4, <2>2, <2>3, <3>1 DEF sys_call
      <3> QED
        BY <1>4, <2>3, <3>2 DEF Called
    <2>4. CASE function = "SEND" /\ ~Refused(a, p, other)
      <3>1. b = c /\ p \notin USERS
        BY <1>4, <2>2, <2>4 DEF sys_call
      <3> HIDE DEF b, c
      <3> QED
        BY <2>2, <2>4, <3>1 DEF Called, b
    <2>5. CASE function = "BOTH" /\ ~Refused(a, p, other)
      <3>1. b = mini_rec(c, p, other)
        BY <2>2, <2>5 DEF sys_call
      <3>2. InUse(c, p) /\ c.p_flags[p] = {} /\ ~ToBeTold(c, p, other)
        BY <1>1, <2>1, <2>2, NotProcs DEF InUse, SameSignals, ToBeTold
      <3>3. /\ Core(c) /\ p \in Procs /\ c.p_getfrom[p] = NONE
            /\ other \in Procs \cup {ANY, HARDWARE}
            /\ c.p_sendto[p] # NONE => c.p_sendto[p] = other
            /\ c.p_sendto[p] = NONE => First(c, p)
            /\ p \notin USERS \/ c.p_sendto[p] # NONE => HighestRuns(c)
            /\ Sent(a, c, p, other, m)
        BY <1>1, <2>2
      <3> HIDE DEF b, c
      <3>4. /\ Core(mini_rec(c, p, other)) /\ HighestRuns(mini_rec(c, p, other))
            /\ Received(c, mini_rec(c, p, other), p, other)
        BY <3>2, <3>3, ReceiveCore
      <3>5. Core(b) /\ HighestRuns(b) /\ Called(a, b, function, other, m)
        BY <2>5, <3>1, <3>3, <3>4 DEF Called
      <3> QED
        BY <3>5 DEF b
    <2> QED
      BY <1>4, <2>3, <2>4, <2>5
  <1> QED
    BY <1>2, <1>3, <1>4

\* In b an interrupt of a is blocked, or t has got it.
Interrupted(a, b, t) ==
    \/ /\ SameSignals(a, b) /\ b.p_getfrom = a.p_getfrom /\ b.p_sendto = a.p_sendto
       /\ b.inbox = a.inbox /\ b.p_messbuf = a.p_messbuf
    \/ /\ a.p_sendto[t] = NONE /\ a.p_getfrom[t] \in {ANY, HARDWARE}
       /\ Delivered(a, b, t, Message(HARDWARE, "HARD_INT"))

\* An interrupt wakes its task or is blocked.
LEMMA InterruptCore ==
    ASSUME NEW a, Core(a), HighestRuns(a), NEW t \in TASKS
    PROVE  LET b == interrupt(a, t) IN
           Core(b) /\ HighestRuns(b) /\ Interrupted(a, b, t)
  <1>1. Typed(a) /\ QueuesHoldRunnable(a) /\ Waits(a)
    BY DEF Core
  <1>2. t \in Procs /\ t \in TASKS /\ t \notin USERS
    BY NotProcs
  <1>3. CASE a.p_sendto[t] # NONE \/ a.p_getfrom[t] \notin {ANY, HARDWARE}
    <2> DEFINE c == [a EXCEPT !.int_blocked = @ \cup {t}]
    <2>1. interrupt(a, t) = c
      BY <1>3 DEF interrupt
    <2>2. /\ c.rdy = a.rdy
          /\ c.proc_ptr = a.proc_ptr /\ DOMAIN c = DOMAIN a
          /\ c.int_blocked = a.int_blocked \cup {t}
          /\ c.p_flags = a.p_flags /\ c.sig_procs = a.sig_procs
          /\ c.p_getfrom = a.p_getfrom /\ c.p_sendto = a.p_sendto
          /\ c.p_callerq = a.p_callerq /\ c.in_use = a.in_use
          /\ SameDomains(a, c) /\ Interrupted(a, c, t)
      BY <1>1 DEF Typed, Fields, SameDomains, Interrupted, SameSignals
    <2> HIDE DEF c
    <2>3. Typed(c) /\ HighestRuns(c)
      BY <1>1, <1>2, <2>2 DEF Typed, HighestRuns, SameDomains
    <2>4. QueuesHoldRunnable(c)
      BY <1>1, <2>2 DEF QueuesHoldRunnable, InUse, Runnable
    <2>5. Waits(c)
      <3>1. CallersAreSenders(c)
        BY <1>1, <2>2 DEF Waits, CallersAreSenders
      <3>2. NoRing(c)
        BY <1>1, <2>2 DEF Waits, NoRing
      <3>3. NobodyWaitsInVain(c)
        BY <1>1, <1>3, <2>2 DEF Waits, NobodyWaitsInVain, Acceptable
      <3> QED
        BY <1>1, <2>2, <3>1, <3>2, <3>3 DEF Waits, Runnable
    <2> QED
      BY <2>1, <2>2, <2>3, <2>4, <2>5 DEF Core
  <1>4. CASE a.p_sendto[t] = NONE /\ a.p_getfrom[t] \in {ANY, HARDWARE}
    <2> DEFINE h == Message(HARDWARE, "HARD_INT")
               c == [a EXCEPT !.inbox[t] = h,
                              !.p_getfrom[t] = NONE, !.int_blocked = @ \ {t}]
    <2>1. interrupt(a, t) = ready(c, t)
      BY <1>4 DEF interrupt
    <2> HIDE DEF h
    <2>2. /\ DOMAIN c = DOMAIN a /\ c.p_getfrom = [a.p_getfrom EXCEPT ![t] = NONE]
          /\ c.p_flags = a.p_flags /\ c.sig_procs = a.sig_procs /\ c.p_sendto = a.p_sendto
          /\ c.p_callerq = a.p_callerq /\ c.rdy = a.rdy /\ c.in_use = a.in_use
          /\ c.int_blocked = a.int_blocked \ {t} /\ c.proc_ptr = a.proc_ptr
          /\ SameDomains(a, c) /\ Delivered(a, c, t, h)
      BY <1>1 DEF Typed, Fields, SameDomains, Delivered, SameSignals
    <2> HIDE DEF c
    <2>3. /\ a.p_getfrom[t] # NONE
          /\ c.p_getfrom[t] = NONE /\ \A y \in Procs \ {t} : c.p_getfrom[y] = a.p_getfrom[y]
      BY <1>1, <1>2, <1>4, <2>2, NotProcs DEF Typed
    <2>4. Typed(c) /\ OneWaits(a, c, t)
      <3>1. c.p_getfrom \in [Procs -> Procs \cup {ANY, HARDWARE, NONE}]
        BY <1>1, <2>2 DEF Typed
      <3>2. c.int_blocked \subseteq TASKS
        BY <1>1, <2>2 DEF Typed
      <3>3. Typed(c)
        BY <1>1, <2>2, <3>1, <3>2 DEF Typed, SameDomains
      <3> QED
        BY <2>2, <2>3, <3>3 DEF OneWaits
    <2>5. Waits(c)
      <3>1. CallersAreSenders(c)
        BY <1>1, <2>2 DEF Waits, CallersAreSenders
      <3>2. NoRing(c)
        BY <1>1, <2>2 DEF Waits, NoRing
      <3>3. \A u \in USERS \ c.in_use : Runnable(c, u)
        BY <1>1, <1>2, <2>2, <2>3 DEF Waits, Runnable, Procs
      <3>4. \A y \in Procs : c.p_sendto[y] # NONE /\ c.p_getfrom[y] # NONE =>
                                 c.p_getfrom[y] = c.p_sendto[y]
        BY <1>1, <2>2, <2>3 DEF Waits
      <3>5. NobodyWaitsInVain(c)
        BY <1>1, <2>2, <2>3 DEF Waits, NobodyWaitsInVain, Acceptable
      <3> QED
        BY <1>1, <2>2, <3>1, <3>2, <3>3, <3>4, <3>5 DEF Waits
    <2>6. QueuesWithout(c, t) /\ InUse(c, t)
      <3>1. ~Runnable(a, t)
        BY <2>3 DEF Runnable
      <3> QED
        BY <1>1, <1>2, <2>4, <3>1, OneWaitsQueues DEF InUse
    <2>7. Runnable(c, t)
      BY <1>2, <1>4, <2>2, <2>3, <2>4, RunnableIsFree DEF Free
    <2>8. interrupt(a, t) = ReadyIfRunnable(c, t)
      BY <2>1, <2>7 DEF ReadyIfRunnable
    <2>9. HighestRuns(c)
      BY <2>2 DEF HighestRuns
    <2> DEFINE b == interrupt(a, t)
    <2>10. Core(b) /\ HighestRuns(b) /\ SameTables(c, b)
      BY <1>2, <2>4, <2>5, <2>6, <2>8, <2>9, ReadyCore
    <2> HIDE DEF b
    <2>11. Delivered(a, b, t, h)
      BY <2>2, <2>10 DEF Delivered, SameSignals, SameTables, SameWaits
    <2>12. Interrupted(a, b, t)
      BY <1>4, <2>11 DEF Interrupted, h
    <2> QED
      BY <2>10, <2>12 DEF b
  <1> QED
    BY <1>3, <1>4

\* What do_xit does to the tables of messages and processes.
Exited(a, b, u) ==
    /\ b.in_use = a.in_use \ {u}
    /\ b.p_flags = [a.p_flags EXCEPT ![u] = {}]
    /\ "PENDING" \notin a.p_flags[u] => b.sig_procs = a.sig_procs
    /\ b.p_getfrom = [a.p_getfrom EXCEPT ![u] = NONE]
    /\ b.p_sendto = [a.p_sendto EXCEPT ![u] = NONE]
    /\ b.inbox = a.inbox /\ b.p_messbuf = [a.p_messbuf EXCEPT ![u] = NoMessage]

\* A user process is killed, whatever it waits for.
LEMMA ExitCore ==
    ASSUME NEW a, Core(a), HighestRuns(a), NEW u \in USERS
    PROVE  LET d == do_xit(a, u) IN
           Core(d) /\ HighestRuns(d) /\ Exited(a, d, u)
  <1> DEFINE b == UnreadyIfRunnable(a, u)
             d == do_xit(a, u)
  <1>1. Typed(a) /\ QueuesHoldRunnable(a) /\ Waits(a) /\ u \in Procs
    BY DEF Core, Procs
  <1>2. /\ Typed(b) /\ Waits(b) /\ QueuesWithout(b, u) /\ SameTables(a, b)
        /\ SameWaits(a, b) /\ HighestRuns(b)
    BY <1>1, UnreadyCore DEF SameTables
  <1>3. d = [Killed(a, u) EXCEPT !.p_flags[u] = {}, !.p_getfrom[u] = NONE,
                                 !.p_sendto[u] = NONE, !.p_messbuf[u] = NoMessage,
                                 !.p_callerq = Unqueued(a, u),
                                 !.sig_procs = IF "PENDING" \in a.p_flags[u] THEN @ - 1 ELSE @]
    BY DEF do_xit
  <1>4. Killed(a, u) = [b EXCEPT !.in_use = @ \ {u}, !.p_pending[u] = {}, !.p_pendcount[u] = 0]
    BY DEF Killed
  <1> HIDE DEF b, d
  <1>5. /\ DOMAIN d = DOMAIN b
        /\ d.p_flags = [b.p_flags EXCEPT ![u] = {}]
        /\ "PENDING" \notin a.p_flags[u] => d.sig_procs = b.sig_procs
        /\ d.p_getfrom = [b.p_getfrom EXCEPT ![u] = NONE]
        /\ d.p_sendto = [b.p_sendto EXCEPT ![u] = NONE]
        /\ d.p_callerq = Unqueued(a, u) /\ d.in_use = b.in_use \ {u}
        /\ d.rdy = b.rdy /\ d.int_blocked = b.int_blocked /\ d.proc_ptr = b.proc_ptr
        /\ d.inbox = b.inbox /\ d.p_messbuf = [b.p_messbuf EXCEPT ![u] = NoMessage]
        /\ SameDomains(b, d)
    <2> DEFINE e == Killed(a, u)
    <2>0. Fields \subseteq DOMAIN b
      BY <1>2 DEF Typed
    <2>1. /\ DOMAIN e = DOMAIN b /\ e.p_flags = b.p_flags /\ e.sig_procs = b.sig_procs
          /\ e.p_getfrom = b.p_getfrom /\ e.p_sendto = b.p_sendto
          /\ e.in_use = b.in_use \ {u} /\ e.rdy = b.rdy /\ e.int_blocked = b.int_blocked
          /\ e.proc_ptr = b.proc_ptr /\ e.inbox = b.inbox /\ e.p_messbuf = b.p_messbuf
          /\ DOMAIN e.p_pending = DOMAIN b.p_pending
          /\ DOMAIN e.p_pendcount = DOMAIN b.p_pendcount
      BY <1>4, <2>0 DEF Fields
    <2> HIDE DEF e
    <2>2. Fields \subseteq DOMAIN e
      BY <2>0, <2>1
    <2>3. d = [e EXCEPT !.p_flags[u] = {}, !.p_getfrom[u] = NONE,
                        !.p_sendto[u] = NONE, !.p_messbuf[u] = NoMessage,
                        !.p_callerq = Unqueued(a, u),
                        !.sig_procs = IF "PENDING" \in a.p_flags[u] THEN @ - 1 ELSE @]
      BY <1>3 DEF e
    <2>4. /\ DOMAIN d = DOMAIN e
          /\ d.p_flags = [e.p_flags EXCEPT ![u] = {}]
          /\ "PENDING" \notin a.p_flags[u] => d.sig_procs = e.sig_procs
          /\ d.p_getfrom = [e.p_getfrom EXCEPT ![u] = NONE]
          /\ d.p_sendto = [e.p_sendto EXCEPT ![u] = NONE]
          /\ d.p_callerq = Unqueued(a, u) /\ d.in_use = e.in_use
          /\ d.rdy = e.rdy /\ d.int_blocked = e.int_blocked /\ d.proc_ptr = e.proc_ptr
          /\ d.inbox = e.inbox /\ d.p_messbuf = [e.p_messbuf EXCEPT ![u] = NoMessage]
          /\ d.p_pending = e.p_pending /\ d.p_pendcount = e.p_pendcount
      BY <2>2, <2>3 DEF Fields
    <2>5. DOMAIN d.p_messbuf = DOMAIN e.p_messbuf
      BY <2>4
    <2> QED
      BY <2>1, <2>4, <2>5 DEF SameDomains
  <1>6. /\ d.p_getfrom[u] = NONE /\ d.p_sendto[u] = NONE /\ d.p_flags[u] = {}
        /\ \A y \in Procs \ {u} : /\ d.p_getfrom[y] = a.p_getfrom[y]
                                  /\ d.p_sendto[y] = a.p_sendto[y]
                                  /\ d.p_flags[y] = a.p_flags[y]
    <2>1. /\ b.p_getfrom = a.p_getfrom /\ b.p_sendto = a.p_sendto /\ b.p_flags = a.p_flags
          /\ DOMAIN a.p_getfrom = Procs /\ DOMAIN a.p_sendto = Procs
          /\ DOMAIN a.p_flags = Procs
      BY <1>1, <1>2 DEF Typed, SameWaits
    <2>2. d.p_getfrom[u] = NONE /\ \A y \in Procs \ {u} : d.p_getfrom[y] = a.p_getfrom[y]
      BY <1>1, <1>5, <2>1
    <2>3. d.p_sendto[u] = NONE /\ \A y \in Procs \ {u} : d.p_sendto[y] = a.p_sendto[y]
      BY <1>1, <1>5, <2>1
    <2>4. d.p_flags[u] = {} /\ \A y \in Procs \ {u} : d.p_flags[y] = a.p_flags[y]
      BY <1>1, <1>5, <2>1
    <2> QED
      BY <2>2, <2>3, <2>4
  <1>7. \A y \in Procs :
          /\ d.p_callerq[y] \in Seq(Procs) /\ NoRepetition(d.p_callerq[y])
          /\ Members(d.p_callerq[y]) = Members(a.p_callerq[y]) \ {u}
    <2> SUFFICES ASSUME NEW y \in Procs
                 PROVE  /\ d.p_callerq[y] \in Seq(Procs) /\ NoRepetition(d.p_callerq[y])
                        /\ Members(d.p_callerq[y]) = Members(a.p_callerq[y]) \ {u}
      OBVIOUS
    <2>1. d.p_callerq[y] = Without(a.p_callerq[y], u)
      BY <1>5 DEF Unqueued
    <2>2. a.p_callerq[y] \in Seq(Procs) /\ NoRepetition(a.p_callerq[y])
      BY <1>1 DEF Typed, Waits, CallersAreSenders
    <2> QED
      BY <2>1, <2>2, WithoutProperties
  <1>8. Typed(d) /\ HighestRuns(d)
    <2>1. d.p_callerq \in [Procs -> Seq(Procs)]
      BY <1>5, <1>7 DEF Unqueued
    <2>2. d.p_getfrom \in [Procs -> Procs \cup {ANY, HARDWARE, NONE}]
      <3>1. b.p_getfrom \in [Procs -> Procs \cup {ANY, HARDWARE, NONE}]
        BY <1>2 DEF Typed
      <3> QED
        BY <1>5, <3>1
    <2>3. d.p_sendto \in [Procs -> Procs \cup {NONE}]
      <3>1. b.p_sendto \in [Procs -> Procs \cup {NONE}]
        BY <1>2 DEF Typed
      <3> QED
        BY <1>5, <3>1
    <2>4. /\ d.p_flags \in [Procs -> SUBSET Flags]
          /\ \A y \in Procs \ USERS : d.p_flags[y] = {}
      <3>1. /\ b.p_flags \in [Procs -> SUBSET Flags]
            /\ \A y \in Procs \ USERS : b.p_flags[y] = {} /\ y # u
        BY <1>2 DEF Typed
      <3>2. d.p_flags = [b.p_flags EXCEPT ![u] = {}]
        BY <1>5
      <3> QED
        BY <3>1, <3>2
    <2>5. /\ Fields \subseteq DOMAIN d /\ d.in_use \subseteq USERS
          /\ d.int_blocked \subseteq TASKS /\ d.rdy \in [Queues -> Seq(Procs)]
      BY <1>2, <1>5 DEF Typed
    <2>6. /\ DOMAIN d.inbox = Procs /\ DOMAIN d.p_messbuf = Procs
          /\ DOMAIN d.p_pending = Procs /\ DOMAIN d.p_pendcount = Procs
      BY <1>2, <1>5 DEF Typed, SameDomains
    <2> QED
      BY <1>2, <1>5, <2>1, <2>2, <2>3, <2>4, <2>5, <2>6 DEF Typed, HighestRuns
  <1>9. QueuesHoldRunnable(d)
    <2>1. \A y \in Procs \ {u} : /\ Runnable(d, y) <=> Runnable(b, y)
                                 /\ InUse(d, y) <=> InUse(b, y)
      BY <1>2, <1>5, <1>6 DEF Runnable, InUse, SameWaits
    <2>2. ~InUse(d, u)
      BY <1>5 DEF InUse
    <2>3. DOMAIN d.rdy = Queues
      BY <1>8 DEF Typed
    <2> QED
      BY <1>2, <1>5, <2>1, <2>2, <2>3 DEF QueuesWithout, QueuesHoldRunnable
  <1>10. Waits(d)
    <2>1. CallersAreSenders(d)
      <3> SUFFICES ASSUME NEW y \in Procs
                   PROVE  Members(d.p_callerq[y]) = {x \in Procs : d.p_sendto[x] = y}
        BY <1>7 DEF CallersAreSenders
      <3>1. Members(a.p_callerq[y]) = {x \in Procs : a.p_sendto[x] = y}
        BY <1>1 DEF Waits, CallersAreSenders
      <3>2. Members(d.p_callerq[y]) = Members(a.p_callerq[y]) \ {u}
        BY <1>7
      <3>3. \A x \in Procs : d.p_sendto[x] = y <=> a.p_sendto[x] = y /\ x # u
        BY <1>6, NotProcs
      <3> QED
        BY <3>1, <3>2, <3>3
    <2>2. \A v \in USERS : d.p_callerq[v] = << >>
      <3> SUFFICES ASSUME NEW v \in USERS PROVE d.p_callerq[v] = << >>
        OBVIOUS
      <3>1. a.p_callerq[v] = << >> /\ d.p_callerq[v] = Without(a.p_callerq[v], u)
        BY <1>1, <1>5 DEF Waits, Unqueued, Procs
      <3> QED
        BY <3>1 DEF Without, Members
    <2>3. \A v \in USERS \ d.in_use : Runnable(d, v)
      BY <1>1, <1>2, <1>5, <1>6 DEF Waits, Runnable, SameWaits, Procs
    <2>4. \A y \in Procs : d.p_sendto[y] # NONE /\ d.p_getfrom[y] # NONE =>
                               d.p_getfrom[y] = d.p_sendto[y]
      BY <1>1, <1>6 DEF Waits
    <2>5. NobodyWaitsInVain(d)
      <3> SUFFICES ASSUME NEW y \in Procs, d.p_getfrom[y] # NONE, d.p_sendto[y] = NONE
                   PROVE  /\ Acceptable(d, y, d.p_getfrom[y]) = {}
                          /\ y \in d.int_blocked => d.p_getfrom[y] \notin {ANY, HARDWARE}
        BY DEF NobodyWaitsInVain
      <3>1. y # u /\ d.p_getfrom[y] = a.p_getfrom[y] /\ d.int_blocked = a.int_blocked
        BY <1>2, <1>5, <1>6 DEF SameWaits
      <3>2. /\ Acceptable(a, y, a.p_getfrom[y]) = {}
            /\ y \in a.int_blocked => a.p_getfrom[y] \notin {ANY, HARDWARE}
        BY <1>1, <1>6, <3>1 DEF Waits, NobodyWaitsInVain
      <3>3. \A x \in Members(a.p_callerq[y]) : a.p_getfrom[y] \notin {ANY, x}
        BY <3>2 DEF Acceptable, Members
      <3>4. \A x \in Members(d.p_callerq[y]) : a.p_getfrom[y] \notin {ANY, x}
        BY <1>7, <3>3
      <3>5. Acceptable(d, y, d.p_getfrom[y]) = {}
        BY <3>1, <3>4 DEF Acceptable, Members
      <3> QED
        BY <3>1, <3>2, <3>5
    <2>6. NoRing(d)
      <3> SUFFICES ASSUME NEW S \in SUBSET Procs, S # {}, \A y \in S : d.p_sendto[y] \in S
                   PROVE  FALSE
        BY DEF NoRing
      <3>1. u \notin S
        BY <1>6, NotProcs
      <3>2. \A y \in S : a.p_sendto[y] \in S
        BY <1>6, <3>1
      <3> QED
        BY <1>1, <3>2 DEF Waits, NoRing
    <2> QED
      BY <2>1, <2>2, <2>3, <2>4, <2>5, <2>6 DEF Waits
  <1>11. Exited(a, d, u)
    BY <1>2, <1>5 DEF Exited, SameTables, SameWaits
  <1> QED
    BY <1>8, <1>9, <1>10, <1>11 DEF Core, d

\* What do_fork does to the tables of messages and processes.
Forked(a, b, parent, child) ==
    /\ b.in_use = a.in_use \cup {child} /\ b.sig_procs = a.sig_procs
    /\ b.p_flags = [a.p_flags EXCEPT ![child] = (a.p_flags[parent] \cup {"NO_MAP"})
                                                  \ {"PENDING", "SIG_PENDING", "P_STOP"}]
    /\ b.p_getfrom = [a.p_getfrom EXCEPT ![child] = a.p_getfrom[parent]]
    /\ b.p_sendto = a.p_sendto
    /\ b.inbox = a.inbox /\ b.p_messbuf = a.p_messbuf

\* The child waits as the parent does, and has no memory yet.
LEMMA ForkCore ==
    ASSUME NEW a, Core(a), HighestRuns(a), NEW parent \in USERS,
           NEW child \in USERS \ a.in_use, a.p_sendto[parent] = NONE
    PROVE  LET b == do_fork(a, parent, child) IN
           /\ Core(b) /\ HighestRuns(b) /\ Forked(a, b, parent, child)
           /\ b.rdy = a.rdy
  <1> DEFINE b == do_fork(a, parent, child)
             src == a.p_getfrom[parent]
             flags == (a.p_flags[parent] \cup {"NO_MAP"}) \ {"PENDING", "SIG_PENDING", "P_STOP"}
  <1>1. /\ Typed(a) /\ QueuesHoldRunnable(a) /\ Waits(a) /\ parent \in Procs /\ child \in Procs
        /\ child \notin TASKS
    BY NotProcs DEF Core, Procs
  <1>2. src \in Procs \cup {ANY, HARDWARE, NONE} /\ Fields \subseteq DOMAIN a
    BY <1>1 DEF Typed
  <1>3. flags \in SUBSET Flags /\ "NO_MAP" \in flags
    <2>1. a.p_flags[parent] \in SUBSET Flags /\ "NO_MAP" \in Flags
      BY <1>1 DEF Typed, Flags
    <2> QED
      BY <2>1
  <1>4. a.p_callerq[child] = << >> /\ a.p_callerq[parent] = << >> /\ Runnable(a, child)
    BY <1>1 DEF Waits
  <1> HIDE DEF flags, src
  <1>5. /\ DOMAIN b = DOMAIN a
        /\ b.p_flags = [a.p_flags EXCEPT ![child] = flags]
        /\ b.p_getfrom = [a.p_getfrom EXCEPT ![child] = src]
        /\ b.p_sendto = [a.p_sendto EXCEPT ![child] = NONE]
        /\ b.p_callerq = [a.p_callerq EXCEPT ![child] = << >>]
        /\ b.in_use = a.in_use \cup {child} /\ b.sig_procs = a.sig_procs
        /\ b.rdy = a.rdy /\ b.int_blocked = a.int_blocked /\ b.proc_ptr = a.proc_ptr
        /\ b.inbox = a.inbox /\ b.p_messbuf = a.p_messbuf /\ SameDomains(a, b)
    BY <1>2, <1>4 DEF do_fork, Fields, flags, src, SameDomains
  <1> HIDE DEF b
  <1>6. /\ b.p_getfrom[child] = src /\ b.p_flags[child] = flags
        /\ \A y \in Procs \ {child} : /\ b.p_getfrom[y] = a.p_getfrom[y]
                                      /\ b.p_flags[y] = a.p_flags[y]
    <2>1. DOMAIN a.p_getfrom = Procs /\ DOMAIN a.p_flags = Procs
      BY <1>1 DEF Typed
    <2> QED
      BY <1>1, <1>5, <2>1
  <1>7. b.p_sendto = a.p_sendto
    <2>1. a.p_sendto = [y \in Procs |-> a.p_sendto[y]] /\ a.p_sendto[child] = NONE
      BY <1>1, <1>4 DEF Typed, Runnable
    <2> QED
      BY <1>1, <1>5, <2>1
  <1>8. b.p_callerq = a.p_callerq
    <2>1. a.p_callerq = [y \in Procs |-> a.p_callerq[y]]
      BY <1>1 DEF Typed
    <2> QED
      BY <1>1, <1>4, <1>5, <2>1
  <1>9. ~Runnable(b, child)
    BY <1>3, <1>6 DEF Runnable
  <1>10. Typed(b) /\ HighestRuns(b)
    <2>1. b.p_getfrom \in [Procs -> Procs \cup {ANY, HARDWARE, NONE}]
      <3>1. a.p_getfrom \in [Procs -> Procs \cup {ANY, HARDWARE, NONE}]
        BY <1>1 DEF Typed
      <3> QED
        BY <1>2, <1>5, <3>1
    <2>2. Fields \subseteq DOMAIN b /\ b.in_use \subseteq USERS
      BY <1>1, <1>5 DEF Typed
    <2>3. /\ b.p_flags \in [Procs -> SUBSET Flags]
          /\ \A y \in Procs \ USERS : b.p_flags[y] = {}
      <3>1. /\ a.p_flags \in [Procs -> SUBSET Flags]
            /\ \A y \in Procs \ USERS : a.p_flags[y] = {} /\ y # child
        BY <1>1 DEF Typed
      <3>2. b.p_flags = [a.p_flags EXCEPT ![child] = flags]
        BY <1>5
      <3> QED
        BY <1>3, <3>1, <3>2
    <2>4. /\ DOMAIN b.inbox = Procs /\ DOMAIN b.p_messbuf = Procs
          /\ DOMAIN b.p_pending = Procs /\ DOMAIN b.p_pendcount = Procs
      BY <1>1, <1>5 DEF Typed, SameDomains
    <2> QED
      BY <1>1, <1>5, <1>7, <1>8, <2>1, <2>2, <2>3, <2>4 DEF Typed, HighestRuns
  <1>11. QueuesHoldRunnable(b)
    <2>1. \A y \in Procs \ {child} : /\ Runnable(b, y) <=> Runnable(a, y)
                                     /\ InUse(b, y) <=> InUse(a, y)
      BY <1>1, <1>5, <1>6, <1>7 DEF Typed, Runnable, InUse
    <2>2. ~InUse(a, child)
      BY DEF InUse
    <2>3. b.rdy = a.rdy
      BY <1>5
    <2> QED
      BY <1>1, <1>9, <2>1, <2>2, <2>3 DEF QueuesHoldRunnable
  <1>12. Waits(b)
    <2>1. CallersAreSenders(b) /\ NoRing(b) /\ \A u \in USERS : b.p_callerq[u] = << >>
      BY <1>1, <1>7, <1>8 DEF Waits, CallersAreSenders, NoRing
    <2>2. \A u \in USERS \ b.in_use : Runnable(b, u)
      BY <1>1, <1>5, <1>6, <1>7 DEF Waits, Runnable, Procs
    <2>3. \A y \in Procs : b.p_sendto[y] # NONE /\ b.p_getfrom[y] # NONE =>
                               b.p_getfrom[y] = b.p_sendto[y]
      BY <1>1, <1>4, <1>6, <1>7 DEF Waits, Runnable
    <2>4. NobodyWaitsInVain(b)
      <3>1. b.int_blocked = a.int_blocked /\ child \notin a.int_blocked
        BY <1>1, <1>5 DEF Typed
      <3>2. Acceptable(b, child, b.p_getfrom[child]) = {}
        BY <1>4, <1>8 DEF Acceptable
      <3> QED
        BY <1>1, <1>6, <1>7, <1>8, <3>1, <3>2
           DEF Waits, NobodyWaitsInVain, Acceptable
    <2> QED
      BY <2>1, <2>2, <2>3, <2>4 DEF Waits
  <1>13. Forked(a, b, parent, child)
    BY <1>5, <1>7 DEF Forked, flags, src
  <1> QED
    BY <1>5, <1>10, <1>11, <1>12, <1>13 DEF Core, b

\* A process that waits for nothing but memory gets it.
LEMMA NewmapCore ==
    ASSUME NEW a, Core(a), HighestRuns(a), NEW u \in a.in_use,
           \/ a.p_getfrom[u] # NONE
           \/ \E p \in Procs \ USERS : First(a, p)
    PROVE  LET d == do_newmap(a, u) IN
           /\ Core(d) /\ HighestRuns(d)
           /\ d.p_flags = [a.p_flags EXCEPT ![u] = @ \ {"NO_MAP"}]
           /\ d.in_use = a.in_use /\ d.sig_procs = a.sig_procs
           /\ d.p_getfrom = a.p_getfrom /\ d.p_sendto = a.p_sendto
           /\ d.inbox = a.inbox /\ d.p_messbuf = a.p_messbuf
           /\ d.p_pending = a.p_pending /\ d.p_pendcount = a.p_pendcount
  <1> DEFINE c == [a EXCEPT !.p_flags[u] = @ \ {"NO_MAP"}]
             d == do_newmap(a, u)
  <1>1. Typed(a) /\ QueuesHoldRunnable(a) /\ Waits(a) /\ u \in Procs /\ u \in USERS
    BY DEF Core, Procs, Typed
  <1>2. CASE a.p_flags[u] = {}
    <2>1. d = a
      BY <1>2 DEF do_newmap
    <2>2. a.p_flags = [a.p_flags EXCEPT ![u] = @ \ {"NO_MAP"}]
      <3>1. a.p_flags = [y \in Procs |-> a.p_flags[y]]
        BY <1>1 DEF Typed
      <3> QED
        BY <1>2, <3>1
    <2> QED
      BY <2>1, <2>2
  <1>3. CASE a.p_flags[u] # {}
    <2>1. d = ReadyIfRunnable(c, u)
      BY <1>3 DEF do_newmap
    <2>2. /\ DOMAIN c = DOMAIN a /\ c.p_flags = [a.p_flags EXCEPT ![u] = @ \ {"NO_MAP"}]
          /\ c.p_getfrom = a.p_getfrom /\ c.sig_procs = a.sig_procs /\ c.p_sendto = a.p_sendto
          /\ c.p_callerq = a.p_callerq /\ c.rdy = a.rdy /\ c.in_use = a.in_use
          /\ c.int_blocked = a.int_blocked /\ c.proc_ptr = a.proc_ptr
          /\ c.inbox = a.inbox /\ c.p_messbuf = a.p_messbuf
          /\ c.p_pending = a.p_pending /\ c.p_pendcount = a.p_pendcount
      BY <1>1 DEF Typed, Fields
    <2> HIDE DEF c, d
    <2>3. /\ c.p_flags \in [Procs -> SUBSET Flags]
          /\ \A y \in Procs \ {u} : c.p_flags[y] = a.p_flags[y]
      <3>1. a.p_flags \in [Procs -> SUBSET Flags]
        BY <1>1 DEF Typed
      <3> QED
        BY <1>1, <2>2, <3>1
    <2>4. Typed(c)
      BY <1>1, <2>2, <2>3 DEF Typed
    <2>5. OneWaits(a, c, u) /\ InUse(c, u)
      BY <2>2, <2>3 DEF OneWaits, InUse
    <2>6. QueuesWithout(c, u)
      BY <1>1, <1>3, <2>5, OneWaitsQueues DEF Runnable
    <2>7. Waits(c)
      <3>1. CallersAreSenders(c) /\ NoRing(c) /\ NobodyWaitsInVain(c)
        BY <1>1, <2>2 DEF Waits, CallersAreSenders, NoRing, NobodyWaitsInVain, Acceptable
      <3>2. \A v \in USERS \ c.in_use : Runnable(c, v)
        BY <1>1, <2>2, <2>3 DEF Waits, Runnable, Procs
      <3> QED
        BY <1>1, <2>2, <3>1, <3>2 DEF Waits
    <2>8. HighestRuns(c) /\ \A p : First(a, p) => First(c, p)
      BY <2>2 DEF HighestRuns, First
    <2>9. Core(d) /\ SameTables(c, d)
      BY <1>1, <2>1, <2>4, <2>5, <2>6, <2>7, ReadyCore
    <2>10. HighestRuns(d)
      <3>1. CASE a.p_getfrom[u] # NONE
        <4>1. d = c
          BY <2>1, <2>2, <3>1 DEF ReadyIfRunnable, Runnable
        <4> QED
          BY <2>8, <4>1
      <3>2. CASE \E p \in Procs \ USERS : First(a, p)
        <4>1. PICK p \in Procs \ USERS : First(c, p)
          BY <2>8, <3>2
        <4> QED
          BY <1>1, <2>1, <2>4, <2>5, <2>6, <2>7, <2>8, <4>1, ReadyCore
      <3> QED
        BY <3>1, <3>2
    <2>11. /\ d.p_flags = [a.p_flags EXCEPT ![u] = @ \ {"NO_MAP"}]
           /\ d.in_use = a.in_use /\ d.sig_procs = a.sig_procs
           /\ d.p_getfrom = a.p_getfrom /\ d.p_sendto = a.p_sendto
           /\ d.inbox = a.inbox /\ d.p_messbuf = a.p_messbuf
           /\ d.p_pending = a.p_pending /\ d.p_pendcount = a.p_pendcount
      BY <2>2, <2>9 DEF SameTables, SameWaits
    <2> QED
      BY <2>9, <2>10, <2>11 DEF d
  <1> QED
    BY <1>2, <1>3

\* Nothing but held interrupts and inboxes differs.
SameCore(a, b) == SameWaits(a, b) /\ b.rdy = a.rdy /\ b.proc_ptr = a.proc_ptr

\* What is held or in an inbox is nothing to the queues.
LEMMA SameCoreKeeps ==
    ASSUME NEW a, Core(a), HighestRuns(a), NEW b, SameCore(a, b)
    PROVE  Core(b) /\ HighestRuns(b)
  <1>1. Typed(b) /\ \A p : (Runnable(b, p) <=> Runnable(a, p)) /\ (InUse(b, p) <=> InUse(a, p))
    <2>1. b.rdy \in [Queues -> Seq(Procs)]
      BY DEF Core, Typed, SameCore
    <2> QED
      BY <2>1, SameWaitsTyped DEF Core, SameCore
  <1>2. Waits(b)
    BY SameWaitsWaits DEF Core, SameCore
  <1>3. QueuesHoldRunnable(b) /\ HighestRuns(b)
    BY <1>1 DEF Core, SameCore, QueuesHoldRunnable, HighestRuns
  <1> QED
    BY <1>1, <1>2, <1>3 DEF Core

\* After main() everybody is in his queue and nobody waits.
LEMMA BootCore ==
    ASSUME NEW init \in USERS
    PROVE  Core(Boot(init)) /\ HighestRuns(Boot(init))
  <1> DEFINE b == Boot(init)
  <1>1. /\ TASKS \subseteq Procs /\ SERVERS \subseteq Procs /\ init \in USERS
        /\ USERS \subseteq Procs
    BY DEF Procs
  <1>2. /\ Fields \subseteq DOMAIN b
        /\ b.p_flags = [p \in Procs |-> {}] /\ b.sig_procs = 0
        /\ b.p_getfrom = [p \in Procs |-> NONE] /\ b.p_sendto = [p \in Procs |-> NONE]
        /\ b.p_callerq = [p \in Procs |-> << >>] /\ b.in_use = {init}
        /\ b.int_blocked = {} /\ b.proc_ptr = Head(TASK_SLOTS)
        /\ DOMAIN b.inbox = Procs /\ DOMAIN b.p_messbuf = Procs
        /\ DOMAIN b.p_pending = Procs /\ DOMAIN b.p_pendcount = Procs
        /\ b.rdy = [TASK_Q |-> TASK_SLOTS, SERVER_Q |-> SERVER_SLOTS,
                    USER_Q |-> <<init>>]
    BY DEF Boot, Fields
  <1> HIDE DEF b
  <1>4. /\ b.rdy["TASK_Q"] = TASK_SLOTS /\ b.rdy["SERVER_Q"] = SERVER_SLOTS
        /\ b.rdy["USER_Q"] = <<init>> /\ DOMAIN b.rdy = Queues
        /\ b.rdy = [q \in Queues |-> b.rdy[q]]
    BY <1>2 DEF Queues
  <1>5. /\ TASK_SLOTS \in Seq(Procs) /\ SERVER_SLOTS \in Seq(Procs)
        /\ <<init>> \in Seq(Procs)
    <2>1. ASSUME NEW s \in Seq(Int), Members(s) \subseteq Procs PROVE s \in Seq(Procs)
      <3>1. /\ Len(s) \in Nat /\ DOMAIN s = 1 .. Len(s) /\ s = [i \in 1 .. Len(s) |-> s[i]]
        BY LenProperties
      <3>2. \A i \in 1 .. Len(s) : s[i] \in Procs
        BY <2>1, <3>1 DEF Members
      <3> QED
        BY <3>1, <3>2, IsASeq
    <2>2. TASK_SLOTS \in Seq(Int) /\ SERVER_SLOTS \in Seq(Int)
      BY SlotsAssumption
    <2>3. Members(TASK_SLOTS) \subseteq Procs /\ Members(SERVER_SLOTS) \subseteq Procs
      BY <1>1 DEF TASKS, SERVERS
    <2> QED
      BY <1>1, <2>1, <2>2, <2>3
  <1>6. /\ NoRepetition(<<init>>) /\ Members(<<init>>) = {init}
    BY DEF NoRepetition, Members
  <1>7. Typed(b)
    <2>1. b.rdy \in [Queues -> Seq(Procs)]
      BY <1>4, <1>5 DEF Queues
    <2>2. /\ b.p_getfrom \in [Procs -> Procs \cup {ANY, HARDWARE, NONE}]
          /\ b.p_sendto \in [Procs -> Procs \cup {NONE}]
      BY <1>2
    <2>3. b.p_callerq \in [Procs -> Seq(Procs)]
      BY <1>2, EmptySeq
    <2> QED
      BY <1>1, <1>2, <2>1, <2>2, <2>3 DEF Typed
  <1>8. QueuesHoldRunnable(b)
    <2>1. \A p \in Procs : /\ Runnable(b, p)
                           /\ InUse(b, p) <=> (p \in USERS => p = init)
      BY <1>2 DEF Runnable, InUse
    <2>2. /\ NoRepetition(b.rdy["TASK_Q"]) /\ Members(b.rdy["TASK_Q"]) = TASKS
          /\ NoRepetition(b.rdy["SERVER_Q"]) /\ Members(b.rdy["SERVER_Q"]) = SERVERS
          /\ NoRepetition(b.rdy["USER_Q"]) /\ Members(b.rdy["USER_Q"]) = {init}
      BY <1>4, <1>6, SlotsAssumption DEF TASKS, SERVERS
    <2>3. /\ \A p \in Procs : QueueOf(p) = "TASK_Q" <=> p \in TASKS
          /\ \A p \in Procs : QueueOf(p) = "SERVER_Q" <=> p \in SERVERS
          /\ \A p \in Procs : QueueOf(p) = "USER_Q" <=> p \in USERS
          /\ TASKS \cap USERS = {} /\ SERVERS \cap USERS = {}
      <3>1. TASKS \cap SERVERS = {} /\ TASKS \cap USERS = {} /\ SERVERS \cap USERS = {}
        BY SlotsAssumption
      <3> QED
        BY <3>1 DEF QueueOf, Procs
    <2>4. \A q \in Queues :
            /\ NoRepetition(b.rdy[q])
            /\ Members(b.rdy[q]) =
                 {p \in Procs : InUse(b, p) /\ Runnable(b, p) /\ QueueOf(p) = q}
      <3>1. TASKS = {p \in Procs : InUse(b, p) /\ Runnable(b, p) /\ QueueOf(p) = "TASK_Q"}
        BY <1>1, <2>1, <2>3
      <3>2. SERVERS = {p \in Procs : InUse(b, p) /\ Runnable(b, p) /\ QueueOf(p) = "SERVER_Q"}
        BY <1>1, <2>1, <2>3
      <3>3. {init}
              = {p \in Procs : InUse(b, p) /\ Runnable(b, p) /\ QueueOf(p) = "USER_Q"}
        BY <1>1, <2>1, <2>3
      <3> QED
        BY <2>2, <3>1, <3>2, <3>3 DEF Queues
    <2> QED
      BY <1>4, <2>4 DEF QueuesHoldRunnable
  <1>9. Waits(b)
    BY <1>1, <1>2, NotProcs
       DEF Waits, CallersAreSenders, NoRepetition, Members, Runnable, NobodyWaitsInVain, NoRing
  <1>10. HighestRuns(b)
    BY <1>2, <1>4, SlotsAssumption DEF HighestRuns, Highest
  <1> QED
    BY <1>7, <1>8, <1>9, <1>10 DEF Core, b

-----------------------------------------------------------------------------
(* Flags and signals.                                                        *)

\* The server that is to run next stays the one.
HeadKept(a, b) ==
    a.rdy["SERVER_Q"] # << >> =>
      b.rdy["SERVER_Q"] # << >> /\ Head(b.rdy["SERVER_Q"]) = Head(a.rdy["SERVER_Q"])

\* Who becomes ready goes behind the server that is to run next.
LEMMA HeadReady ==
    ASSUME NEW a, {"rdy", "proc_ptr"} \subseteq DOMAIN a, a.rdy \in [Queues -> Seq(Procs)],
           NEW p \in Procs
    PROVE  HeadKept(a, ReadyIfRunnable(a, p))
  <1>1. a.rdy["SERVER_Q"] \in Seq(Procs) /\ "SERVER_Q" \in Queues /\ QueueOf(p) \in Queues
    BY QueueOfType DEF Queues
  <1>2. HeadKept(a, a)
    BY DEF HeadKept
  <1>3. HeadKept(a, ready(a, p))
    <2> DEFINE s == a.rdy["SERVER_Q"]
               r == ready(a, p).rdy["SERVER_Q"]
    <2>1. r = s \/ r = Append(s, p)
      BY <1>1 DEF ready
    <2>2. s \in Seq(Procs)
      BY <1>1
    <2> HIDE DEF s, r
    <2>3. s # << >> => r # << >> /\ Head(r) = Head(s)
      <3>1. Len(s) \in Nat /\ (s # << >> => Len(s) # 0)
        BY <2>2, EmptySeq, LenProperties
      <3> QED
        BY <2>1, <2>2, <3>1, AppendProperties
    <2> QED
      BY <2>3 DEF HeadKept, s, r
  <1> QED
    BY <1>2, <1>3 DEF ReadyIfRunnable

\* A task or a user that stops is in another queue.
LEMMA HeadUnready ==
    ASSUME NEW a, Typed(a), NEW p \in Procs \ SERVERS
    PROVE  /\ UnreadyIfRunnable(a, p).rdy["SERVER_Q"] = a.rdy["SERVER_Q"]
           /\ HeadKept(a, UnreadyIfRunnable(a, p))
  <1>1. QueueOf(p) # "SERVER_Q" /\ DOMAIN a.rdy = Queues /\ "SERVER_Q" \in Queues
    BY DEF QueueOf, Typed, Queues
  <1>2. unready(a, p).rdy["SERVER_Q"] = a.rdy["SERVER_Q"]
    <2>1. unready(a, p).rdy = [a.rdy EXCEPT ![QueueOf(p)] = Without(@, p)]
      BY UnreadyFields
    <2> QED
      BY <1>1, <2>1
  <1> QED
    BY <1>2 DEF UnreadyIfRunnable, HeadKept

\* Of the servers only s can run: it is next.
LEMMA OnlyServer ==
    ASSUME NEW a, Core(a), NEW s \in SERVERS, Runnable(a, s),
           \A x \in SERVERS \ {s} : ~Runnable(a, x)
    PROVE  a.rdy["SERVER_Q"] # << >> /\ Head(a.rdy["SERVER_Q"]) = s
  <1> DEFINE r == a.rdy["SERVER_Q"]
  <1>1. /\ SERVERS \subseteq Procs /\ SERVERS \cap USERS = {} /\ TASKS \cap SERVERS = {}
        /\ \A p \in Procs : QueueOf(p) = "SERVER_Q" <=> p \in SERVERS
    BY SlotsAssumption DEF Procs, QueueOf
  <1>2. r \in Seq(Procs) /\ "SERVER_Q" \in DOMAIN a.rdy
    BY DEF Core, Typed, Queues
  <1>3. Members(r) = {p \in Procs : InUse(a, p) /\ Runnable(a, p) /\ QueueOf(p) = "SERVER_Q"}
    BY <1>2 DEF Core, QueuesHoldRunnable
  <1> HIDE DEF r
  <1>4. s \in Members(r)
    BY <1>1, <1>3 DEF InUse
  <1>5. \A x \in Members(r) : x = s
    BY <1>1, <1>3
  <1>6. r # << >> /\ Head(r) \in Members(r)
    <2>1. Len(r) \in Nat /\ DOMAIN r = 1 .. Len(r)
      BY <1>2, LenProperties
    <2>2. r # << >>
      BY <1>4 DEF Members
    <2>3. 1 \in DOMAIN r
      BY <1>2, <2>1, <2>2, EmptySeq
    <2> QED
      BY <1>2, <2>2, <2>3 DEF Members
  <1> QED
    BY <1>5, <1>6 DEF r

\* pick_proc: the highest runs.
LEMMA PickCore ==
    ASSUME NEW a, Core(a)
    PROVE  LET b == pick_proc(a) IN
           /\ Core(b) /\ HighestRuns(b) /\ SameTables(a, b) /\ b.rdy = a.rdy
           /\ b.proc_ptr = Highest(a.rdy)
  <1> DEFINE b == pick_proc(a)
  <1>1. SameTables(a, b) /\ b.rdy = a.rdy /\ b.proc_ptr = Highest(a.rdy)
    BY DEF pick_proc, SameTables, SameWaits, SameDomains, Core, Typed, Fields
  <1> HIDE DEF b
  <1>2. SameWaits(a, b) /\ Typed(a) /\ Waits(a) /\ QueuesHoldRunnable(a)
    BY <1>1 DEF SameTables, Core
  <1>3. Typed(b) /\ \A p : (Runnable(b, p) <=> Runnable(a, p)) /\ (InUse(b, p) <=> InUse(a, p))
    <2>1. b.rdy \in [Queues -> Seq(Procs)]
      BY <1>1, <1>2 DEF Typed
    <2> QED
      BY <1>2, <2>1, SameWaitsTyped
  <1>4. Waits(b)
    BY <1>2, SameWaitsWaits
  <1>5. QueuesHoldRunnable(b)
    BY <1>1, <1>2, <1>3 DEF QueuesHoldRunnable
  <1> QED
    BY <1>1, <1>3, <1>4, <1>5 DEF Core, HighestRuns, b

\* b is a with other flags for u, and perhaps other signals.
Reflagged(a, b, u, F) ==
    /\ DOMAIN b = DOMAIN a
    /\ b.p_flags = [a.p_flags EXCEPT ![u] = F]
    /\ b.p_getfrom = a.p_getfrom /\ b.p_sendto = a.p_sendto
    /\ b.p_callerq = a.p_callerq /\ b.in_use = a.in_use
    /\ b.int_blocked = a.int_blocked /\ b.rdy = a.rdy /\ b.proc_ptr = a.proc_ptr
    /\ b.inbox = a.inbox /\ b.p_messbuf = a.p_messbuf
    /\ DOMAIN b.p_pending = DOMAIN a.p_pending
    /\ DOMAIN b.p_pendcount = DOMAIN a.p_pendcount

\* The flags of a process in use are nothing to who waits for whom.
LEMMA ReflaggedKeeps ==
    ASSUME NEW a, Typed(a), Waits(a), NEW u \in a.in_use, NEW F \in SUBSET Flags,
           NEW b, Reflagged(a, b, u, F)
    PROVE  /\ Typed(b) /\ Waits(b) /\ OneWaits(a, b, u) /\ InUse(b, u)
           /\ HighestRuns(a) <=> HighestRuns(b)
           /\ \A p : First(a, p) <=> First(b, p)
           /\ b.p_flags[u] = F /\ u \in Procs /\ u \in USERS
           /\ HeadKept(a, b)
  <1>1. u \in Procs /\ u \in USERS
    BY DEF Typed, Procs
  <1>2. /\ b.p_flags \in [Procs -> SUBSET Flags] /\ b.p_flags[u] = F
        /\ \A y \in Procs \ {u} : b.p_flags[y] = a.p_flags[y]
    <2>1. a.p_flags \in [Procs -> SUBSET Flags]
      BY DEF Typed
    <2> QED
      BY <1>1, <2>1 DEF Reflagged
  <1>3. Typed(b)
    BY <1>1, <1>2 DEF Typed, Reflagged
  <1>4. OneWaits(a, b, u) /\ InUse(b, u)
    BY <1>2 DEF OneWaits, InUse, Reflagged
  <1>5. Waits(b)
    <2>1. CallersAreSenders(b) /\ NoRing(b) /\ NobodyWaitsInVain(b)
      BY DEF Waits, CallersAreSenders, NoRing, NobodyWaitsInVain, Acceptable, Reflagged
    <2>2. \A v \in USERS \ b.in_use : Runnable(b, v)
      BY <1>2 DEF Waits, Runnable, Procs, Reflagged
    <2> QED
      BY <2>1, <2>2 DEF Waits, Reflagged
  <1> QED
    BY <1>1, <1>2, <1>3, <1>4, <1>5 DEF Reflagged, HighestRuns, First, HeadKept

\* u is stopped, by whatever flags.
LEMMA StoppedCore ==
    ASSUME NEW a, Core(a), HighestRuns(a), NEW u \in a.in_use,
           NEW F \in SUBSET Flags, F # {},
           NEW b, Reflagged(UnreadyIfRunnable(a, u), b, u, F)
    PROVE  Core(b) /\ HighestRuns(b) /\ HeadKept(a, b) /\ Typed(a)
  <1> DEFINE c == UnreadyIfRunnable(a, u)
  <1>1. Typed(a) /\ u \in Procs /\ u \in USERS /\ u \in Procs \ SERVERS
    BY SlotsAssumption DEF Core, Typed, Procs
  <1>2. Typed(c) /\ Waits(c) /\ QueuesWithout(c, u) /\ SameTables(a, c) /\ HighestRuns(c)
    BY <1>1, UnreadyCore
  <1>3. HeadKept(a, c)
    BY <1>1, HeadUnready
  <1> HIDE DEF c
  <1>4. u \in c.in_use /\ Reflagged(c, b, u, F)
    BY <1>2 DEF SameTables, SameWaits, c
  <1>5. /\ Typed(b) /\ Waits(b) /\ OneWaits(c, b, u) /\ HighestRuns(b)
        /\ b.p_flags[u] = F /\ HeadKept(c, b)
    BY <1>2, <1>4, ReflaggedKeeps
  <1>6. QueuesHoldRunnable(b)
    <2>1. ~Runnable(b, u)
      BY <1>5 DEF Runnable
    <2> QED
      BY <1>1, <1>2, <1>5, <2>1, OneWaitsQueues
  <1>7. HeadKept(a, b)
    BY <1>3, <1>5 DEF HeadKept
  <1> QED
    BY <1>1, <1>5, <1>6, <1>7 DEF Core

\* u, which was stopped, loses flags, and is ready if that was all.
LEMMA ReleasedCore ==
    ASSUME NEW a, Core(a), HighestRuns(a), NEW u \in a.in_use, a.p_flags[u] # {},
           NEW F \in SUBSET Flags, NEW c, Reflagged(a, c, u, F),
           NEW p \in Procs \ USERS, First(a, p)
    PROVE  LET b == ReadyIfRunnable(c, u) IN
           Core(b) /\ HighestRuns(b) /\ SameTables(c, b) /\ HeadKept(a, b)
  <1>1. Typed(a) /\ Waits(a) /\ QueuesHoldRunnable(a)
    BY DEF Core
  <1>2. /\ Typed(c) /\ Waits(c) /\ OneWaits(a, c, u) /\ InUse(c, u) /\ HighestRuns(c)
        /\ First(c, p) /\ u \in Procs /\ HeadKept(a, c)
    BY <1>1, ReflaggedKeeps
  <1>3. QueuesWithout(c, u)
    BY <1>1, <1>2, OneWaitsQueues DEF Runnable
  <1>4. HeadKept(c, ReadyIfRunnable(c, u))
    BY <1>2, HeadReady DEF Typed, Fields
  <1>5. HeadKept(a, ReadyIfRunnable(c, u))
    BY <1>2, <1>4 DEF HeadKept
  <1> QED
    BY <1>2, <1>3, <1>5, ReadyCore

\* The users with signals that MM has not been told of.
Marked(a) == {u \in USERS : "PENDING" \in a.p_flags[u]}

Ksig(u, map) == [m_source |-> HARDWARE, m_type |-> "KSIG", SIG_PROC |-> u, SIG_MAP |-> map]

\* MM has been told of the signals of u.
Told(a, b, u) ==
    /\ b.in_use = a.in_use
    /\ b.p_flags = [a.p_flags EXCEPT ![u] = @ \ {"PENDING"}]
    /\ b.sig_procs = a.sig_procs - 1
    /\ b.p_pending = [a.p_pending EXCEPT ![u] = {}] /\ b.p_pendcount = a.p_pendcount
    /\ b.p_getfrom = [a.p_getfrom EXCEPT ![MM] = NONE] /\ b.p_sendto = a.p_sendto
    /\ b.inbox = [a.inbox EXCEPT ![MM] = Ksig(u, a.p_pending[u])]
    /\ b.p_messbuf = a.p_messbuf

\* MM waits and gets the signals of one process, which stays stopped.
LEMMA InformCore ==
    ASSUME NEW a, Core(a), MM \in SERVERS, USERS \subseteq Nat,
           a.p_sendto[MM] = NONE, a.p_getfrom[MM] = ANY, Marked(a) # {},
           \A u \in Marked(a) : u \in a.in_use /\ "SIG_PENDING" \in a.p_flags[u]
    PROVE  LET b == inform(a) IN
           /\ Core(b) /\ HighestRuns(b) /\ HeadKept(a, b)
           /\ \E u \in Marked(a) : Told(a, b, u)
  <1> DEFINE u == Smallest({x \in Procs \ TASKS : "PENDING" \in a.p_flags[x]})
             m == Ksig(u, a.p_pending[u])
             c == Deliver(a, MM, m)
             d == [c EXCEPT !.sig_procs = @ - 1, !.p_pending[u] = {},
                            !.p_flags[u] = @ \ {"PENDING"}]
             b == inform(a)
  <1>1. /\ Typed(a) /\ MM \in Procs /\ MM \notin USERS /\ InUse(a, MM)
        /\ Awaits(a, MM, HARDWARE)
    BY SlotsAssumption DEF Core, Procs, InUse, Awaits
  <1>2. u \in Marked(a) /\ u \in a.in_use /\ "SIG_PENDING" \in a.p_flags[u] /\ u \in USERS
    <2>1. {x \in Procs \ TASKS : "PENDING" \in a.p_flags[x]} = Marked(a)
      <3>1. \A x \in Procs \ TASKS : "PENDING" \in a.p_flags[x] => x \in USERS
        BY <1>1 DEF Typed
      <3>2. USERS \subseteq Procs \ TASKS
        BY SlotsAssumption DEF Procs
      <3> QED
        BY <3>1, <3>2 DEF Marked
    <2>2. Marked(a) \in SUBSET Nat
      BY DEF Marked
    <2>3. u \in Marked(a)
      BY <2>1, <2>2, SmallestIsIn
    <2> QED
      BY <2>3 DEF Marked
  <1>3. mini_send(a, HARDWARE, MM, m).k = c
    <2>1. HARDWARE \notin USERS /\ HARDWARE # NONE
      BY NotProcs DEF Procs
    <2>2. ~Ring(a, HARDWARE, MM)
      <3>1. /\ {MM} \in SUBSET Procs /\ MM \in {MM}
            /\ \A q \in {MM} : a.p_sendto[q] \in {MM} \cup {NONE} /\ a.p_sendto[q] # HARDWARE
        BY <1>1, <2>1
      <3> QED
        BY <3>1 DEF Ring
    <2> QED
      BY <1>1, <2>1, <2>2 DEF mini_send
  <1>4. b = pick_proc(d)
    BY <1>3 DEF inform, Ksig
  <1> HIDE DEF u, m
  <1>5. Core(c) /\ Delivered(a, c, MM, m)
    BY <1>1, DeliverCore
  <1>6. HeadKept(a, c)
    <2> DEFINE e == [a EXCEPT !.inbox[MM] = m, !.p_getfrom[MM] = NONE]
    <2>1. e.rdy = a.rdy /\ {"rdy", "proc_ptr"} \subseteq DOMAIN e
      BY <1>1 DEF Typed, Fields
    <2>2. c = ReadyIfRunnable(e, MM)
      BY DEF Deliver
    <2> HIDE DEF e
    <2>3. HeadKept(e, c)
      <3>1. e.rdy \in [Queues -> Seq(Procs)]
        BY <1>1, <2>1 DEF Typed
      <3> QED
        BY <1>1, <2>1, <2>2, <3>1, HeadReady
    <2> QED
      BY <2>1, <2>3 DEF HeadKept
  <1> HIDE DEF c
  <1>7. Typed(c) /\ Waits(c) /\ QueuesHoldRunnable(c) /\ u \in c.in_use
    BY <1>2, <1>5 DEF Core, Delivered, SameSignals
  <1>8. /\ Reflagged(c, d, u, c.p_flags[u] \ {"PENDING"})
        /\ d.sig_procs = c.sig_procs - 1 /\ d.p_pending = [c.p_pending EXCEPT ![u] = {}]
        /\ d.p_pendcount = c.p_pendcount
    BY <1>7 DEF Typed, Fields, Reflagged
  <1> HIDE DEF d
  <1>9. /\ Core(d) /\ HeadKept(c, d)
    <2> DEFINE F == c.p_flags[u] \ {"PENDING"}
    <2>1. F \in SUBSET Flags
      <3>1. c.p_flags[u] \in SUBSET Flags
        BY <1>2, <1>7 DEF Typed, Procs
      <3> QED
        BY <3>1
    <2>0. Reflagged(c, d, u, F) /\ F = c.p_flags[u] \ {"PENDING"}
      BY <1>8
    <2> HIDE DEF F
    <2>2. /\ Typed(d) /\ Waits(d) /\ OneWaits(c, d, u) /\ HeadKept(c, d) /\ u \in Procs
          /\ d.p_flags[u] = F
      <3>1. Typed(c) /\ Waits(c) /\ u \in c.in_use
        BY <1>7
      <3>2. Reflagged(c, d, u, F)
        BY <2>0
      <3> QED
        BY <2>1, <3>1, <3>2, ReflaggedKeeps
    <2>3. c.p_flags[u] # {} /\ d.p_flags[u] # {}
      BY <1>2, <1>5, <2>0, <2>2 DEF Delivered, SameSignals
    <2>4. ~Runnable(c, u) /\ ~Runnable(d, u)
      BY <2>3 DEF Runnable
    <2>5. QueuesHoldRunnable(d)
      BY <1>7, <2>2, <2>4, OneWaitsQueues
    <2> QED
      BY <2>2, <2>5 DEF Core
  <1>10. Core(b) /\ HighestRuns(b) /\ SameTables(d, b) /\ b.rdy = d.rdy
    BY <1>4, <1>9, PickCore
  <1>11. Told(a, b, u)
    <2>1. /\ b.in_use = d.in_use /\ b.p_flags = d.p_flags /\ b.sig_procs = d.sig_procs
          /\ b.p_pending = d.p_pending /\ b.p_pendcount = d.p_pendcount
          /\ b.p_getfrom = d.p_getfrom /\ b.p_sendto = d.p_sendto
          /\ b.inbox = d.inbox /\ b.p_messbuf = d.p_messbuf
      BY <1>10 DEF SameTables, SameWaits
    <2> QED
      BY <1>5, <1>8, <2>1 DEF Told, Reflagged, Delivered, SameSignals, m
  <1>12. HeadKept(a, b)
    BY <1>6, <1>9, <1>10 DEF HeadKept
  <1> HIDE DEF b
  <1> QED
    BY <1>2, <1>10, <1>11, <1>12 DEF b

\* One more signal of u, of which MM has not been told.
Noted(a, b, u, sig) ==
    /\ b.p_pending = [a.p_pending EXCEPT ![u] = @ \cup {sig}]
    /\ b.p_pendcount = [a.p_pendcount EXCEPT ![u] = @ + 1]
    /\ b.in_use = a.in_use
    /\ b.p_getfrom = a.p_getfrom /\ b.p_sendto = a.p_sendto
    /\ b.inbox = a.inbox /\ b.p_messbuf = a.p_messbuf

\* What cause_sig does to the tables of signals.
Caused(a, b, u, sig) ==
    \/ sig \in a.p_pending[u] /\ b = a
    \/ /\ sig \notin a.p_pending[u] /\ "PENDING" \in a.p_flags[u]
       /\ Noted(a, b, u, sig)
       /\ b.p_flags = a.p_flags /\ b.sig_procs = a.sig_procs
    \/ /\ sig \notin a.p_pending[u] /\ "PENDING" \notin a.p_flags[u]
       /\ \E c : /\ Noted(a, c, u, sig)
                 /\ c.p_flags = [a.p_flags EXCEPT ![u] = @ \cup {"PENDING", "SIG_PENDING"}]
                 /\ c.sig_procs = a.sig_procs + 1
                 /\ IF a.p_getfrom[MM] = ANY THEN \E p \in Marked(c) : Told(c, b, p)
                                              ELSE b = c

\* A signal stops its process, and MM is told if it waits.
LEMMA CauseSigCore ==
    ASSUME NEW a, Core(a), HighestRuns(a), MM \in SERVERS, USERS \subseteq Nat,
           a.p_getfrom[MM] = ANY => a.p_sendto[MM] = NONE,
           \A v \in Marked(a) : v \in a.in_use /\ "SIG_PENDING" \in a.p_flags[v],
           NEW u \in a.in_use, NEW sig
    PROVE  LET b == cause_sig(a, u, sig) IN
           Core(b) /\ HighestRuns(b) /\ HeadKept(a, b) /\ Caused(a, b, u, sig)
  <1> DEFINE b == cause_sig(a, u, sig)
             c == [a EXCEPT !.p_pending[u] = @ \cup {sig}, !.p_pendcount[u] = @ + 1]
             e == UnreadyIfRunnable(c, u)
             d == [e EXCEPT !.p_flags[u] = @ \cup {"PENDING", "SIG_PENDING"},
                            !.sig_procs = @ + 1]
  <1>1. HeadKept(a, a) /\ Typed(a) /\ u \in Procs /\ u \in USERS
    BY DEF HeadKept, Core, Typed, Procs
  <1>2. /\ Noted(a, c, u, sig) /\ SameCore(a, c)
        /\ c.p_flags = a.p_flags /\ c.sig_procs = a.sig_procs
    BY <1>1 DEF Noted, SameCore, SameWaits, SameDomains, Typed, Fields
  <1>3. CASE sig \in a.p_pending[u]
    <2>1. b = a
      BY <1>3 DEF cause_sig
    <2> QED
      BY <1>1, <1>3, <2>1 DEF Caused
  <1>4. CASE sig \notin a.p_pending[u] /\ "PENDING" \in a.p_flags[u]
    <2>1. b = c
      BY <1>4 DEF cause_sig
    <2> HIDE DEF b, c
    <2>2. Core(b) /\ HighestRuns(b)
      BY <1>2, <2>1, SameCoreKeeps
    <2>3. HeadKept(a, b)
      BY <1>2, <2>1 DEF SameCore, HeadKept
    <2>4. Caused(a, b, u, sig)
      BY <1>2, <1>4, <2>1 DEF Caused
    <2> QED
      BY <2>2, <2>3, <2>4 DEF b
  <1>5. CASE sig \notin a.p_pending[u] /\ "PENDING" \notin a.p_flags[u]
    <2>1. b = IF a.p_getfrom[MM] = ANY THEN inform(d) ELSE d
      BY <1>5 DEF cause_sig
    <2> HIDE DEF b, c
    <2>2. Core(c) /\ HighestRuns(c) /\ u \in c.in_use /\ Typed(c) /\ HeadKept(a, c)
      <3>1. Core(c) /\ HighestRuns(c)
        BY <1>2, SameCoreKeeps
      <3> QED
        BY <1>2, <3>1 DEF SameCore, SameWaits, HeadKept, Core
    <2>3. SameTables(c, e) /\ Typed(e)
      BY <1>1, <2>2, UnreadyCore
    <2> HIDE DEF e
    <2>4. /\ Reflagged(e, d, u, e.p_flags[u] \cup {"PENDING", "SIG_PENDING"})
          /\ d.sig_procs = e.sig_procs + 1
          /\ d.p_pending = e.p_pending /\ d.p_pendcount = e.p_pendcount
      BY <2>3 DEF Typed, Fields, Reflagged
    <2> HIDE DEF d
    <2>5. Core(d) /\ HighestRuns(d) /\ HeadKept(c, d)
      <3> DEFINE F == e.p_flags[u] \cup {"PENDING", "SIG_PENDING"}
      <3>1. F \in SUBSET Flags /\ F # {}
        <4>1. e.p_flags[u] \in SUBSET Flags
          BY <1>1, <2>3 DEF Typed
        <4> QED
          BY <4>1 DEF Flags
      <3>2. Reflagged(UnreadyIfRunnable(c, u), d, u, F)
        BY <2>4 DEF e
      <3> HIDE DEF F
      <3> QED
        BY <2>2, <3>1, <3>2, StoppedCore
    <2>6. /\ Noted(a, d, u, sig)
          /\ d.p_flags = [a.p_flags EXCEPT ![u] = @ \cup {"PENDING", "SIG_PENDING"}]
          /\ d.sig_procs = a.sig_procs + 1
      BY <1>2, <2>3, <2>4 DEF Noted, Reflagged, SameTables, SameWaits
    <2>7. CASE a.p_getfrom[MM] # ANY
      <3>1. b = d
        BY <2>1, <2>7
      <3>2. Caused(a, b, u, sig)
        BY <1>5, <2>6, <2>7, <3>1 DEF Caused
      <3>3. HeadKept(a, b)
        BY <2>2, <2>5, <3>1 DEF HeadKept
      <3> QED
        BY <2>5, <3>1, <3>2, <3>3 DEF b
    <2>8. CASE a.p_getfrom[MM] = ANY
      <3>1. b = inform(d)
        BY <2>1, <2>8
      <3>2. \A v \in Marked(d) : v \in d.in_use /\ "SIG_PENDING" \in d.p_flags[v]
        <4> SUFFICES ASSUME NEW v \in Marked(d)
                     PROVE  v \in d.in_use /\ "SIG_PENDING" \in d.p_flags[v]
          OBVIOUS
        <4>1. v \in USERS /\ "PENDING" \in d.p_flags[v] /\ d.in_use = a.in_use
              /\ v \in Procs /\ DOMAIN a.p_flags = Procs
          BY <1>1, <2>6 DEF Marked, Noted, Procs, Typed
        <4>2. CASE v = u
          BY <1>1, <2>6, <4>1, <4>2
        <4>3. CASE v # u
          <5>1. d.p_flags[v] = a.p_flags[v]
            BY <1>1, <2>6, <4>1, <4>3
          <5> QED
            BY <4>1, <5>1 DEF Marked
        <4> QED
          BY <4>2, <4>3
      <3>3. u \in Marked(d)
        <4>1. DOMAIN a.p_flags = Procs
          BY <1>1 DEF Typed
        <4> QED
          BY <1>1, <2>6, <4>1 DEF Marked
      <3>4. d.p_getfrom[MM] = ANY /\ d.p_sendto[MM] = NONE
        BY <2>6, <2>8 DEF Noted
      <3> HIDE DEF b
      <3>5. /\ Core(b) /\ HighestRuns(b) /\ HeadKept(d, b)
            /\ \E p \in Marked(d) : Told(d, b, p)
        BY <2>5, <3>1, <3>2, <3>3, <3>4, InformCore
      <3>6. Caused(a, b, u, sig)
        BY <1>5, <2>6, <2>8, <3>5 DEF Caused
      <3>7. HeadKept(a, b)
        BY <2>2, <2>5, <3>5 DEF HeadKept
      <3> QED
        BY <3>5, <3>6, <3>7 DEF b
    <2> QED
      BY <2>7, <2>8
  <1> QED
    BY <1>3, <1>4, <1>5

\* Nothing but what is waited for and received, and queues, differs.
SameMessages(a, b) ==
    /\ b.in_use = a.in_use
    /\ b.p_getfrom = a.p_getfrom /\ b.p_sendto = a.p_sendto
    /\ b.inbox = a.inbox /\ b.p_messbuf = a.p_messbuf

\* MM has finished with one signal of u.
Ended(a, b, u) ==
    /\ SameMessages(a, b)
    /\ b.p_pending = a.p_pending /\ b.sig_procs = a.sig_procs
    /\ b.p_pendcount = [a.p_pendcount EXCEPT ![u] = @ - 1]
    /\ b.p_flags = IF a.p_pendcount[u] - 1 # 0 THEN a.p_flags
                   ELSE [a.p_flags EXCEPT ![u] = @ \ {"SIG_PENDING"}]

\* The last signal of a process lets it go on.
LEMMA EndsigCore ==
    ASSUME NEW a, Core(a), HighestRuns(a), NEW u \in USERS,
           u \in a.in_use /\ a.p_pendcount[u] # 0 => "SIG_PENDING" \in a.p_flags[u],
           NEW p \in Procs \ USERS, First(a, p)
    PROVE  LET b == do_endsig(a, u) IN
           /\ Core(b) /\ HighestRuns(b) /\ HeadKept(a, b)
           /\ IF u \in a.in_use /\ a.p_pendcount[u] # 0 THEN Ended(a, b, u) ELSE b = a
  <1> DEFINE b == do_endsig(a, u)
             c == [a EXCEPT !.p_pendcount[u] = @ - 1]
             d == [c EXCEPT !.p_flags[u] = @ \ {"SIG_PENDING"}]
  <1>1. HeadKept(a, a) /\ Typed(a) /\ u \in Procs /\ DOMAIN a.p_pendcount = Procs
    BY DEF HeadKept, Core, Typed, Procs
  <1>2. CASE ~(u \in a.in_use /\ a.p_pendcount[u] # 0)
    <2>1. b = a
      BY <1>2 DEF do_endsig, InUse
    <2> HIDE DEF b
    <2> QED
      BY <1>1, <1>2, <2>1 DEF b
  <1>3. CASE u \in a.in_use /\ a.p_pendcount[u] # 0
    <2>1. /\ c.p_pendcount = [a.p_pendcount EXCEPT ![u] = @ - 1]
          /\ c.p_pendcount[u] = a.p_pendcount[u] - 1
          /\ c.p_pending = a.p_pending /\ SameMessages(a, c) /\ SameCore(a, c)
          /\ c.p_flags = a.p_flags /\ c.sig_procs = a.sig_procs
      BY <1>1 DEF SameCore, SameWaits, SameDomains, SameMessages, Typed, Fields
    <2>2. b = IF c.p_pendcount[u] # 0 THEN c ELSE ReadyIfRunnable(d, u)
      BY <1>3 DEF do_endsig, InUse
    <2>3. /\ Reflagged(c, d, u, c.p_flags[u] \ {"SIG_PENDING"})
          /\ d.p_pending = c.p_pending /\ d.p_pendcount = c.p_pendcount
          /\ d.sig_procs = c.sig_procs
      BY <1>1 DEF Typed, Fields, Reflagged
    <2> HIDE DEF b, c, d
    <2>4. Core(c) /\ HighestRuns(c) /\ First(c, p) /\ HeadKept(a, c) /\ u \in c.in_use
      <3>1. Core(c) /\ HighestRuns(c)
        BY <2>1, SameCoreKeeps
      <3>2. c.rdy = a.rdy /\ c.proc_ptr = a.proc_ptr /\ c.in_use = a.in_use
        BY <2>1 DEF SameCore, SameWaits
      <3> QED
        BY <1>3, <3>1, <3>2 DEF First, HeadKept
    <2>5. CASE a.p_pendcount[u] - 1 # 0
      <3>1. b = c
        BY <2>1, <2>2, <2>5
      <3> QED
        BY <1>3, <2>1, <2>4, <2>5, <3>1 DEF Ended, b
    <2>6. CASE ~(a.p_pendcount[u] - 1 # 0)
      <3>1. b = ReadyIfRunnable(d, u)
        BY <2>1, <2>2, <2>6
      <3> DEFINE F == c.p_flags[u] \ {"SIG_PENDING"}
      <3>2. F \in SUBSET Flags /\ c.p_flags[u] # {}
        <4>1. c.p_flags[u] \in SUBSET Flags
          BY <1>1, <2>1 DEF Typed
        <4> QED
          BY <1>3, <2>1, <4>1
      <3>3. Reflagged(c, d, u, F)
        BY <2>3
      <3> HIDE DEF F
      <3>4. Core(b) /\ HighestRuns(b) /\ SameTables(d, b) /\ HeadKept(c, b)
        BY <2>4, <3>1, <3>2, <3>3, ReleasedCore
      <3>5. Ended(a, b, u)
        BY <2>1, <2>3, <2>6, <3>4 DEF Ended, SameMessages, SameTables, SameWaits, Reflagged
      <3>6. HeadKept(a, b)
        BY <2>4, <3>4 DEF HeadKept
      <3> QED
        BY <1>3, <3>4, <3>5, <3>6 DEF b
    <2> QED
      BY <2>5, <2>6
  <1> QED
    BY <1>2, <1>3

\* u has got or lost the flag P_STOP.
Traced(a, b, u, F) ==
    /\ SameMessages(a, b)
    /\ b.p_pending = a.p_pending /\ b.p_pendcount = a.p_pendcount
    /\ b.sig_procs = a.sig_procs
    /\ b.p_flags = [a.p_flags EXCEPT ![u] = F]

\* A traced process is stopped.
LEMMA StopCore ==
    ASSUME NEW a, Core(a), HighestRuns(a), NEW u \in USERS
    PROVE  LET b == do_trace(a, u, "T_STOP") IN
           /\ Core(b) /\ HighestRuns(b) /\ HeadKept(a, b)
           /\ IF u \in a.in_use THEN Traced(a, b, u, a.p_flags[u] \cup {"P_STOP"}) ELSE b = a
  <1> DEFINE b == do_trace(a, u, "T_STOP")
             c == UnreadyIfRunnable(a, u)
  <1>1. HeadKept(a, a) /\ Typed(a) /\ u \in Procs
    BY DEF HeadKept, Core, Typed, Procs
  <1>2. CASE u \notin a.in_use
    <2>1. b = a
      BY <1>2 DEF do_trace, InUse
    <2> HIDE DEF b
    <2> QED
      BY <1>1, <1>2, <2>1 DEF b
  <1>3. CASE u \in a.in_use
    <2>1. SameTables(a, c) /\ Typed(c)
      BY <1>1, UnreadyCore
    <2>2. b = [c EXCEPT !.p_flags[u] = @ \cup {"P_STOP"}]
      BY <1>3 DEF do_trace, InUse
    <2> HIDE DEF b, c
    <2> DEFINE F == a.p_flags[u] \cup {"P_STOP"}
    <2>3. /\ Reflagged(c, b, u, F)
          /\ b.p_pending = c.p_pending /\ b.p_pendcount = c.p_pendcount
          /\ b.sig_procs = c.sig_procs
      BY <2>1, <2>2 DEF Typed, Fields, Reflagged, SameTables, SameWaits
    <2>4. F \in SUBSET Flags /\ F # {}
      <3>1. a.p_flags[u] \in SUBSET Flags
        BY <1>1 DEF Typed
      <3> QED
        BY <3>1 DEF Flags
    <2>5. Reflagged(UnreadyIfRunnable(a, u), b, u, F)
      BY <2>3 DEF c
    <2>6. Traced(a, b, u, F)
      BY <2>1, <2>3 DEF Traced, SameMessages, SameTables, SameWaits, Reflagged
    <2>7. F = a.p_flags[u] \cup {"P_STOP"}
      OBVIOUS
    <2> HIDE DEF F
    <2>8. Core(b) /\ HighestRuns(b) /\ HeadKept(a, b)
      BY <1>3, <2>4, <2>5, StoppedCore
    <2> QED
      BY <1>3, <2>6, <2>7, <2>8 DEF b
  <1> QED
    BY <1>2, <1>3

\* A process stopped by its tracer is resumed.
LEMMA ResumeCore ==
    ASSUME NEW a, Core(a), HighestRuns(a), NEW u \in a.in_use, "P_STOP" \in a.p_flags[u],
           NEW p \in Procs \ USERS, First(a, p)
    PROVE  LET b == do_trace(a, u, "T_RESUME") IN
           /\ Core(b) /\ HighestRuns(b) /\ HeadKept(a, b)
           /\ Traced(a, b, u, a.p_flags[u] \ {"P_STOP"})
  <1> DEFINE b == do_trace(a, u, "T_RESUME")
             c == [a EXCEPT !.p_flags[u] = @ \ {"P_STOP"}]
             F == a.p_flags[u] \ {"P_STOP"}
  <1>1. Typed(a) /\ u \in Procs
    BY DEF Core, Typed, Procs
  <1>2. b = ReadyIfRunnable(c, u)
    BY DEF do_trace, InUse
  <1>3. /\ Reflagged(a, c, u, F)
        /\ c.p_pending = a.p_pending /\ c.p_pendcount = a.p_pendcount
        /\ c.sig_procs = a.sig_procs
    BY <1>1 DEF Typed, Fields, Reflagged
  <1>4. F \in SUBSET Flags /\ a.p_flags[u] # {}
    <2>1. a.p_flags[u] \in SUBSET Flags
      BY <1>1 DEF Typed
    <2> QED
      BY <2>1
  <1>5. F = a.p_flags[u] \ {"P_STOP"}
    OBVIOUS
  <1> HIDE DEF b, c, F
  <1>6. Core(b) /\ HighestRuns(b) /\ SameTables(c, b) /\ HeadKept(a, b)
    BY <1>2, <1>3, <1>4, ReleasedCore
  <1>7. Traced(a, b, u, F)
    BY <1>3, <1>6 DEF Traced, SameMessages, SameTables, SameWaits, Reflagged
  <1> QED
    BY <1>5, <1>6, <1>7 DEF b

\* What exit does to the tables of signals.
LEMMA ExitSignals ==
    ASSUME NEW a, Core(a), NEW u \in USERS
    PROVE  LET b == do_xit(a, u) IN
           /\ b.p_pending = [a.p_pending EXCEPT ![u] = {}]
           /\ b.p_pendcount = [a.p_pendcount EXCEPT ![u] = 0]
           /\ b.sig_procs = IF "PENDING" \in a.p_flags[u] THEN a.sig_procs - 1
                                                         ELSE a.sig_procs
           /\ HeadKept(a, b)
  <1> DEFINE b == do_xit(a, u)
             c == UnreadyIfRunnable(a, u)
             e == Killed(a, u)
  <1>1. Typed(a) /\ u \in Procs \ SERVERS
    BY SlotsAssumption DEF Core, Procs
  <1>2. Typed(c) /\ SameTables(a, c) /\ HeadKept(a, c)
    BY <1>1, UnreadyCore, HeadUnready
  <1>3. e = [c EXCEPT !.in_use = @ \ {u}, !.p_pending[u] = {}, !.p_pendcount[u] = 0]
    BY DEF Killed
  <1> HIDE DEF c
  <1>4. /\ e.p_pending = [a.p_pending EXCEPT ![u] = {}]
        /\ e.p_pendcount = [a.p_pendcount EXCEPT ![u] = 0]
        /\ e.sig_procs = a.sig_procs /\ e.rdy = c.rdy /\ Fields \subseteq DOMAIN e
    <2>1. Fields \subseteq DOMAIN c
      BY <1>2 DEF Typed
    <2>2. /\ e.p_pending = [c.p_pending EXCEPT ![u] = {}]
          /\ e.p_pendcount = [c.p_pendcount EXCEPT ![u] = 0]
          /\ e.sig_procs = c.sig_procs /\ e.rdy = c.rdy /\ DOMAIN e = DOMAIN c
      BY <1>3, <2>1 DEF Fields
    <2> QED
      BY <1>2, <2>1, <2>2 DEF SameTables, SameWaits
  <1>5. b = [e EXCEPT !.p_flags[u] = {}, !.p_getfrom[u] = NONE,
                      !.p_sendto[u] = NONE, !.p_messbuf[u] = NoMessage,
                      !.p_callerq = Unqueued(a, u),
                      !.sig_procs = IF "PENDING" \in a.p_flags[u] THEN @ - 1 ELSE @]
    BY DEF do_xit
  <1> HIDE DEF e, b
  <1>6. /\ b.p_pending = e.p_pending /\ b.p_pendcount = e.p_pendcount /\ b.rdy = e.rdy
        /\ b.sig_procs = IF "PENDING" \in a.p_flags[u] THEN e.sig_procs - 1 ELSE e.sig_procs
    BY <1>4, <1>5 DEF Fields
  <1> QED
    BY <1>2, <1>4, <1>6 DEF HeadKept, b

\* The child begins without signals.
LEMMA ForkSignals ==
    ASSUME NEW a, Core(a), NEW parent \in USERS, NEW child \in USERS
    PROVE  LET b == do_fork(a, parent, child) IN
           /\ b.p_pending = [a.p_pending EXCEPT ![child] = {}]
           /\ b.p_pendcount = [a.p_pendcount EXCEPT ![child] = 0]
  BY DEF do_fork, Core, Typed, Fields

\* A process that gets memory goes behind the server that is to run next.
LEMMA NewmapHead ==
    ASSUME NEW a, Core(a), NEW u \in USERS
    PROVE  HeadKept(a, do_newmap(a, u))
  <1> DEFINE c == [a EXCEPT !.p_flags[u] = @ \ {"NO_MAP"}]
  <1>1. c.rdy = a.rdy /\ {"rdy", "proc_ptr"} \subseteq DOMAIN c /\ u \in Procs
    BY DEF Core, Typed, Fields, Procs
  <1> HIDE DEF c
  <1>2. HeadKept(c, ReadyIfRunnable(c, u))
    BY <1>1, HeadReady DEF Core, Typed
  <1> QED
    BY <1>1, <1>2 DEF do_newmap, HeadKept, c

\* A process that waited for an answer goes on without one.
LEMMA ExecCore ==
    ASSUME NEW a, Core(a), HighestRuns(a), NEW u \in a.in_use,
           a.p_getfrom[u] # NONE, a.p_sendto[u] = NONE,
           NEW p \in Procs \ USERS, First(a, p)
    PROVE  LET b == do_exec(a, u, FALSE) IN
           /\ Core(b) /\ HighestRuns(b) /\ HeadKept(a, b) /\ SameSignals(a, b)
           /\ b.p_getfrom = [a.p_getfrom EXCEPT ![u] = NONE] /\ b.p_sendto = a.p_sendto
           /\ b.inbox = a.inbox /\ b.p_messbuf = a.p_messbuf
  <1> DEFINE c == [a EXCEPT !.p_getfrom[u] = NONE]
             b == ReadyIfRunnable(c, u)
  <1>1. Typed(a) /\ QueuesHoldRunnable(a) /\ Waits(a) /\ u \in Procs /\ u \in USERS
    BY DEF Core, Typed, Procs
  <1>2. /\ DOMAIN c = DOMAIN a /\ c.p_getfrom = [a.p_getfrom EXCEPT ![u] = NONE]
        /\ c.p_flags = a.p_flags /\ c.sig_procs = a.sig_procs /\ c.p_sendto = a.p_sendto
        /\ c.p_callerq = a.p_callerq /\ c.rdy = a.rdy /\ c.in_use = a.in_use
        /\ c.int_blocked = a.int_blocked /\ c.proc_ptr = a.proc_ptr
        /\ c.inbox = a.inbox /\ c.p_messbuf = a.p_messbuf
        /\ c.p_pending = a.p_pending /\ c.p_pendcount = a.p_pendcount
    BY <1>1 DEF Typed, Fields
  <1>3. do_exec(a, u, FALSE) = b
    BY DEF do_exec
  <1> HIDE DEF c
  <1>4. /\ c.p_getfrom[u] = NONE
        /\ \A y \in Procs \ {u} : c.p_getfrom[y] = a.p_getfrom[y]
    BY <1>1, <1>2 DEF Typed
  <1>5. Typed(c) /\ OneWaits(a, c, u)
    <2>1. c.p_getfrom \in [Procs -> Procs \cup {ANY, HARDWARE, NONE}]
      BY <1>1, <1>2 DEF Typed
    <2> QED
      BY <1>1, <1>2, <1>4, <2>1 DEF Typed, OneWaits
  <1>6. Waits(c)
    <2>1. CallersAreSenders(c) /\ NoRing(c)
      BY <1>1, <1>2 DEF Waits, CallersAreSenders, NoRing
    <2>2. \A v \in USERS \ c.in_use : Runnable(c, v)
      BY <1>1, <1>2, <1>4 DEF Waits, Runnable, Procs
    <2>3. \A y \in Procs : c.p_sendto[y] # NONE /\ c.p_getfrom[y] # NONE =>
                               c.p_getfrom[y] = c.p_sendto[y]
      BY <1>1, <1>2, <1>4 DEF Waits
    <2>4. NobodyWaitsInVain(c)
      BY <1>1, <1>2, <1>4 DEF Waits, NobodyWaitsInVain, Acceptable
    <2> QED
      BY <1>1, <1>2, <2>1, <2>2, <2>3, <2>4 DEF Waits
  <1>7. QueuesWithout(c, u) /\ InUse(c, u)
    <2>1. InUse(c, u)
      BY <1>2 DEF InUse
    <2>2. ~Runnable(a, u)
      BY DEF Runnable
    <2> QED
      BY <1>1, <1>5, <2>1, <2>2, OneWaitsQueues
  <1>8. HighestRuns(c) /\ First(c, p) /\ HeadKept(a, c)
    BY <1>2 DEF First, HighestRuns, HeadKept
  <1>9. Core(b) /\ SameTables(c, b) /\ HighestRuns(b)
    BY <1>1, <1>5, <1>6, <1>7, <1>8, ReadyCore
  <1>10. HeadKept(c, b)
    BY <1>1, <1>5, HeadReady DEF Typed, Fields
  <1> HIDE DEF b
  <1>11. HeadKept(a, b) /\ SameSignals(a, b)
    BY <1>2, <1>8, <1>9, <1>10 DEF HeadKept, SameTables, SameWaits, SameSignals
  <1> QED
    BY <1>2, <1>3, <1>9, <1>11 DEF SameTables, SameWaits

-----------------------------------------------------------------------------
(* Calls of which more is known.                                             *)

\* Who answers a process that waits for it gives the answer at once.
LEMMA AnswerCore ==
    ASSUME NEW a, Core(a), HighestRuns(a), NEW p \in Procs \ USERS, p = a.proc_ptr,
           NEW dest \in Procs, dest # p, InUse(a, dest),
           a.p_sendto[dest] = NONE, a.p_getfrom[dest] = p, NEW m
    PROVE  LET b == sys_call(a, "SEND", dest, m).k IN
           Core(b) /\ HighestRuns(b) /\ Delivered(a, b, dest, m) /\ HeadKept(a, b)
  <1> DEFINE c == [a EXCEPT !.inbox[dest] = m, !.p_getfrom[dest] = NONE]
             b == Deliver(a, dest, m)
  <1>1. /\ Typed(a) /\ Awaits(a, dest, p) /\ First(a, p)
    <2>1. p # IDLE
      BY NotProcs
    <2> QED
      BY <2>1, RunningProcess DEF Core, Awaits
  <1>2. ~Ring(a, p, dest)
    <2>1. /\ {dest} \in SUBSET Procs /\ dest \in {dest}
          /\ \A q \in {dest} : a.p_sendto[q] \in {dest} \cup {NONE} /\ a.p_sendto[q] # p
      BY NotProcs
    <2> QED
      BY <2>1 DEF Ring
  <1>3. sys_call(a, "SEND", dest, m).k = b
    BY <1>1, <1>2 DEF sys_call, mini_send
  <1>4. c.rdy = a.rdy /\ {"rdy", "proc_ptr"} \subseteq DOMAIN c /\ a.rdy \in [Queues -> Seq(Procs)]
    BY <1>1 DEF Typed, Fields
  <1>5. b = ReadyIfRunnable(c, dest)
    BY DEF Deliver
  <1> HIDE DEF b, c
  <1>6. HeadKept(c, b)
    <2>1. c.rdy \in [Queues -> Seq(Procs)]
      BY <1>4
    <2> QED
      BY <1>4, <1>5, <2>1, HeadReady
  <1>7. HeadKept(a, b)
    BY <1>4, <1>6 DEF HeadKept
  <1>8. Core(b) /\ HighestRuns(b) /\ Delivered(a, b, dest, m)
    BY <1>1, DeliverCore DEF b
  <1> QED
    BY <1>3, <1>7, <1>8

\* p has asked dest and waits for the answer, in the queue of dest or not.
HasAsked(a, b, p, dest, m) ==
    /\ SameSignals(a, b)
    /\ IF Awaits(a, dest, p)
       THEN /\ b.p_getfrom = [a.p_getfrom EXCEPT ![dest] = NONE, ![p] = dest]
            /\ b.p_sendto = a.p_sendto
            /\ b.inbox = [a.inbox EXCEPT ![dest] = m] /\ b.p_messbuf = a.p_messbuf
       ELSE /\ b.p_getfrom = [a.p_getfrom EXCEPT ![p] = dest]
            /\ b.p_sendto = [a.p_sendto EXCEPT ![p] = dest]
            /\ b.inbox = a.inbox /\ b.p_messbuf = [a.p_messbuf EXCEPT ![p] = m]

\* A call that sends and receives.
LEMMA AskCore ==
    ASSUME NEW a, Core(a), HighestRuns(a), NEW p \in Procs, p = a.proc_ptr,
           NEW dest \in Procs \ USERS, dest # p, NEW m
    PROVE  LET b == sys_call(a, "BOTH", dest, m).k IN
           /\ Core(b) /\ HighestRuns(b)
           /\ (b = a /\ Refused(a, p, dest)) \/ HasAsked(a, b, p, dest, m)
  <1> DEFINE b == sys_call(a, "BOTH", dest, m).k
  <1>1. p # IDLE /\ ~ToBeTold(a, p, dest) /\ dest # ANY /\ dest # HARDWARE
    BY NotProcs DEF ToBeTold
  <1>2. a.p_getfrom[p] = NONE /\ a.p_sendto[p] = NONE /\ Typed(a) /\ dest # NONE
    BY <1>1, RunningProcess, NotProcs DEF Free, Core
  <1>3. /\ Core(b) /\ HighestRuns(b) /\ Called(a, b, "BOTH", dest, m)
    BY <1>1, CallCore
  <1> HIDE DEF b
  <1>4. CASE Refused(a, p, dest)
    BY <1>3, <1>4 DEF Called, b
  <1>5. CASE ~Refused(a, p, dest)
    <2>1. PICK c : Sent(a, c, p, dest, m) /\ Received(c, b, p, dest)
      BY <1>3, <1>5 DEF Called
    <2>2. CASE Awaits(a, dest, p)
      <3>1. Delivered(a, c, dest, m)
        BY <1>5, <2>1, <2>2 DEF Sent
      <3>2. c.p_sendto[dest] = NONE /\ \A s \in Procs : c.p_sendto[s] = p /\ dest \in {ANY, s} => FALSE
        <4>1. c.p_sendto[dest] = NONE
          BY <2>2, <3>1 DEF Delivered, Awaits
        <4> QED
          BY <1>1, <4>1, NotProcs
      <3>3. WaitsFor(c, b, p, dest)
        BY <1>1, <2>1, <3>2 DEF Received
      <3>4. b.p_getfrom = [a.p_getfrom EXCEPT ![dest] = NONE, ![p] = dest]
        BY <3>1, <3>3 DEF WaitsFor, Delivered
      <3>5. HasAsked(a, b, p, dest, m)
        BY <2>2, <3>1, <3>3, <3>4 DEF HasAsked, WaitsFor, Delivered, SameSignals
      <3> QED
        BY <1>3, <3>5 DEF b
    <2>3. CASE ~Awaits(a, dest, p)
      <3>1. WaitsToSend(a, c, p, dest, m)
        BY <1>5, <2>1, <2>3 DEF Sent
      <3>2. c.p_sendto[p] = dest
        BY <1>2, <3>1 DEF WaitsToSend, Typed
      <3>3. WaitsFor(c, b, p, dest)
        BY <1>2, <2>1, <3>2 DEF Received
      <3>4. HasAsked(a, b, p, dest, m)
        BY <2>3, <3>1, <3>3 DEF HasAsked, WaitsFor, WaitsToSend, SameSignals
      <3> QED
        BY <1>3, <3>4 DEF b
    <2> QED
      BY <2>2, <2>3
  <1> QED
    BY <1>4, <1>5

\* Who sends to nobody may be asked by the servers.
LEMMA MayAsk ==
    ASSUME NEW a, NEW p \in Procs \ USERS, NEW dest \in Procs \ USERS,
           a.p_sendto[dest] = NONE
    PROVE  ~Refused(a, p, dest)
  <1>1. /\ {dest} \in SUBSET Procs /\ dest \in {dest} /\ InUse(a, dest)
        /\ \A q \in {dest} : a.p_sendto[q] \in {dest} \cup {NONE} /\ a.p_sendto[q] # p
    BY NotProcs DEF InUse
  <1> QED
    BY <1>1 DEF Refused, Ring

\* Who receives and goes on leaves the queue of the servers as it is, and so does a
\* task that waits.
LEMMA ReceiveHead ==
    ASSUME NEW a, Core(a), NEW p \in Procs, a.p_sendto[p] = NONE, ~ToBeTold(a, p, ANY),
           p \in TASKS \/ mini_rec(a, p, ANY).p_getfrom[p] = NONE
    PROVE  HeadKept(a, mini_rec(a, p, ANY))
  <1> DEFINE b == mini_rec(a, p, ANY)
             i == Smallest(Acceptable(a, p, ANY))
             x == a.p_callerq[p][i]
             c == [a EXCEPT !.inbox[p] = a.p_messbuf[x], !.p_messbuf[x] = NoMessage,
                            !.p_sendto[x] = NONE, !.p_callerq[p] = Without(@, x)]
  <1>1. /\ Typed(a) /\ Waits(a) /\ a.rdy \in [Queues -> Seq(Procs)]
        /\ {"rdy", "proc_ptr"} \subseteq DOMAIN a
    BY DEF Core, Typed, Fields
  <1>2. CASE Acceptable(a, p, ANY) # {}
    <2>1. b = ReadyIfRunnable(c, x)
      BY <1>2 DEF mini_rec, TakeFrom
    <2>2. x \in Procs
      <3>1. /\ Acceptable(a, p, ANY) \subseteq DOMAIN a.p_callerq[p]
            /\ DOMAIN a.p_callerq[p] \in SUBSET Nat
        BY <1>1, LenProperties DEF Acceptable, Typed
      <3>2. i \in DOMAIN a.p_callerq[p]
        BY <1>2, <3>1, SmallestIsIn
      <3> QED
        BY <1>1, <3>2 DEF Typed
    <2>3. c.rdy = a.rdy /\ DOMAIN c = DOMAIN a
      BY <1>1
    <2> HIDE DEF b, c, x
    <2>4. HeadKept(c, b)
      <3>1. c.rdy \in [Queues -> Seq(Procs)] /\ {"rdy", "proc_ptr"} \subseteq DOMAIN c
        BY <1>1, <2>3
      <3> QED
        BY <2>1, <2>2, <3>1, HeadReady
    <2> QED
      BY <2>3, <2>4 DEF HeadKept, b
  <1>3. CASE Acceptable(a, p, ANY) = {} /\ p \in a.int_blocked
    <2>1. b = TakeInterrupt(a, p)
      BY <1>3 DEF mini_rec
    <2>2. b.rdy = a.rdy
      BY <1>1, <2>1 DEF TakeInterrupt
    <2> QED
      BY <2>2 DEF HeadKept
  <1>4. CASE Acceptable(a, p, ANY) = {} /\ p \notin a.int_blocked
    <2> DEFINE e == UnreadyIfRunnable(a, p)
    <2>1. b = [e EXCEPT !.p_getfrom[p] = ANY]
      BY <1>4 DEF mini_rec, BlockReceiving, ToBeTold
    <2>2. Typed(e)
      BY UnreadyCore
    <2> HIDE DEF e, b
    <2>3. b.rdy = e.rdy /\ b.p_getfrom[p] = ANY
      BY <2>1, <2>2 DEF Typed, Fields
    <2>4. p \in Procs \ SERVERS
      <3>1. p \in TASKS
        BY <2>3, NotProcs DEF b
      <3> QED
        BY <3>1, SlotsAssumption
    <2>5. HeadKept(a, e)
      BY <1>1, <2>4, HeadUnready DEF e
    <2> QED
      BY <2>3, <2>5 DEF HeadKept, b
  <1> QED
    BY <1>2, <1>3, <1>4

\* MM receives a message, or is told of signals, or waits.
LEMMA MMReceiveCore ==
    ASSUME NEW a, Core(a), HighestRuns(a), MM \in SERVERS, USERS \subseteq Nat,
           MM = a.proc_ptr, a.sig_procs \in Nat, a.sig_procs # 0 => Marked(a) # {},
           \A v \in Marked(a) : v \in a.in_use /\ "SIG_PENDING" \in a.p_flags[v], NEW m
    PROVE  LET b == sys_call(a, "RECEIVE", ANY, m).k IN
           /\ Core(b) /\ HighestRuns(b)
           /\ \/ \E s \in Procs : a.p_sendto[s] = MM /\ TookFrom(a, b, MM, s)
              \/ a.sig_procs = 0 /\ WaitsFor(a, b, MM, ANY)
              \/ \E c : WaitsFor(a, c, MM, ANY) /\ \E u \in Marked(c) : Told(c, b, u)
  <1> DEFINE b == mini_rec(a, MM, ANY)
  <1>1. /\ MM \in Procs /\ MM \notin USERS /\ MM \notin TASKS /\ MM # IDLE
    BY SlotsAssumption, NotProcs DEF Procs
  <1>2. /\ a.p_getfrom[MM] = NONE /\ a.p_sendto[MM] = NONE /\ First(a, MM) /\ InUse(a, MM)
        /\ Typed(a) /\ MM \notin a.int_blocked
    BY <1>1, RunningProcess DEF Free, Core, Typed
  <1>3. sys_call(a, "RECEIVE", ANY, m).k = b
    BY <1>1 DEF sys_call
  <1>4. CASE Acceptable(a, MM, ANY) # {} \/ a.sig_procs = 0
    <2>1. ToBeTold(a, MM, ANY) => a.p_sendto[MM] = NONE /\ Acceptable(a, MM, ANY) # {}
      BY <1>2, <1>4 DEF ToBeTold
    <2>2. Core(b) /\ HighestRuns(b) /\ Received(a, b, MM, ANY)
      BY <1>1, <1>2, <2>1, ReceiveCore
    <2> HIDE DEF b
    <2>3. \/ \E s \in Procs : a.p_sendto[s] = MM /\ TookFrom(a, b, MM, s)
          \/ /\ \A s \in Procs : a.p_sendto[s] # MM
             /\ WaitsFor(a, b, MM, ANY)
      BY <1>2, <2>2 DEF Received
    <2>4. (\A s \in Procs : a.p_sendto[s] # MM) => Acceptable(a, MM, ANY) = {}
      <3>1. Members(a.p_callerq[MM]) = {s \in Procs : a.p_sendto[s] = MM}
        BY <1>1 DEF Core, Waits, CallersAreSenders
      <3>2. (\A s \in Procs : a.p_sendto[s] # MM) => Members(a.p_callerq[MM]) = {}
        BY <3>1
      <3>3. Acceptable(a, MM, ANY) # {} => Members(a.p_callerq[MM]) # {}
        BY DEF Acceptable, Members
      <3> QED
        BY <3>2, <3>3
    <2> QED
      BY <1>3, <1>4, <2>2, <2>3, <2>4
  <1>5. CASE Acceptable(a, MM, ANY) = {} /\ a.sig_procs # 0
    <2> DEFINE c == Asleep(a, MM, ANY)
    <2>1. b = inform(c)
      BY <1>2, <1>5 DEF mini_rec, BlockReceiving, Asleep
    <2>2. Core(c) /\ HighestRuns(c) /\ WaitsFor(a, c, MM, ANY)
      BY <1>1, <1>2, <1>5, AsleepCore
    <2> HIDE DEF b, c
    <2>3. /\ c.p_getfrom[MM] = ANY /\ c.p_sendto[MM] = NONE
          /\ Marked(c) = Marked(a) /\ c.p_flags = a.p_flags /\ c.in_use = a.in_use
      BY <1>1, <1>2, <2>2 DEF WaitsFor, SameSignals, Typed, Marked
    <2>4. Marked(c) # {} /\ \A v \in Marked(c) : v \in c.in_use /\ "SIG_PENDING" \in c.p_flags[v]
      BY <1>5, <2>3
    <2>5. Core(b) /\ HighestRuns(b) /\ \E u \in Marked(c) : Told(c, b, u)
      BY <2>1, <2>2, <2>3, <2>4, InformCore
    <2> QED
      BY <1>3, <2>2, <2>5
  <1> QED
    BY <1>4, <1>5
=============================================================================
