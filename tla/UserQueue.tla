----------------------------- MODULE UserQueue -----------------------------
(* The queue of runnable user processes of src/scheduling/src/kernel/proc.c  *)
(* with its links: q.head and q.tail are rdy_head[USER_Q] and                *)
(* rdy_tail[USER_Q], q.next[u] is p_nextready of u, which keeps its value    *)
(* when u leaves the queue, as q.tail does when the queue becomes empty.     *)
EXTENDS Naturals, Sequences, FiniteSets

CONSTANTS Users, NIL

ASSUME UserAssumption == IsFiniteSet(Users) /\ NIL \notin Users

Groups == 0..2

EmptyQueue == [head |-> NIL, tail |-> NIL, next |-> [u \in Users |-> NIL]]

\* The i-th process of the queue, NIL beyond its end.
Nth(q) ==
    LET nth[i \in 1..Cardinality(Users) + 1] ==
            IF i = 1 THEN q.head
            ELSE LET u == nth[i - 1] IN IF u = NIL THEN NIL ELSE q.next[u]
    IN  nth

\* The processes of the queue in order.
Order(q) == SubSeq(Nth(q), 1, Cardinality({i \in DOMAIN Nth(q) : Nth(q)[i] # NIL}))

InQueue(q) == {u \in Users : \E i \in DOMAIN Nth(q) : Nth(q)[i] = u}

Place(q, u) == CHOOSE i \in DOMAIN Nth(q) : Nth(q)[i] = u

\* ready(): a user process goes to the front.
ready(q, u) ==
    [head |-> u,
     tail |-> IF q.head = NIL THEN u ELSE q.tail,
     next |-> [q.next EXCEPT ![u] = q.head]]

\* Slip: the tail is left where it was.
unreadyKeepingTail(q, u) ==
    IF q.head = u THEN [q EXCEPT !.head = q.next[u]]
    ELSE IF \A x \in InQueue(q) : q.next[x] # u THEN q
    ELSE [q EXCEPT !.next[CHOOSE x \in InQueue(q) : q.next[x] = u] = q.next[u]]

\* unready(): u leaves the queue, if it is there.
unready(q, u) ==
    IF q.head = u THEN [q EXCEPT !.head = q.next[u]]
    ELSE IF \A x \in InQueue(q) : q.next[x] # u THEN q
    ELSE LET xp == CHOOSE x \in InQueue(q) : q.next[x] = u
         IN  [q EXCEPT !.next[xp] = q.next[u],
                       !.tail = IF @ = u THEN xp ELSE @]

\* sched() puts the head at the end.
Rotate(q) ==
    LET next == [q.next EXCEPT ![q.tail] = q.head]
    IN  [head |-> next[q.head],
         tail |-> q.head,
         next |-> [next EXCEPT ![q.head] = NIL]]

\* The processes whose successor is of group g.
Before(q, group, g) == {x \in InQueue(q) : q.next[x] # NIL /\ group[q.next[x]] = g}

\* The successor of prev_node goes to the front.
BringNext(q, prev_node) ==
    LET node == q.next[prev_node]
    IN  [head |-> node,
         tail |-> IF q.tail = node THEN prev_node ELSE q.tail,
         next |-> [q.next EXCEPT ![prev_node] = q.next[node], ![node] = q.head]]

\* One round of sched()'s loop: unless the head is of group g, the first
\* process that is comes to the front.  (The tail is never the one: it is the
\* old head, and when its group's round comes there is no other group left.)
Bring(q, group, g) ==
    LET before == Before(q, group, g)
    IN  IF group[q.head] = g \/ before = {} THEN q
        ELSE BringNext(q, CHOOSE x \in before :
                              \A y \in before : Place(q, x) <= Place(q, y))

\* The loop of sched(), at most three rounds from q on: for the next group, for
\* the one after, and for the old one, until the head is of the group looked for.
Search(q, group, start) ==
    LET found(r, k) == group[r.head] = (start + k) % 3
        first == Bring(q, group, (start + 1) % 3)
        second == IF found(first, 1) THEN first
                  ELSE Bring(first, group, (start + 2) % 3)
    IN  IF found(second, 1) \/ found(second, 2) THEN second
        ELSE Bring(second, group, start)

\* Slip: the head is not put at the end first.
schedUnrotated(q, group) ==
    IF q.head = NIL THEN q ELSE Search(q, group, group[q.head])

\* Slip: the search begins at the group of the new head.
schedFromNewHead(q, group) ==
    IF q.head = NIL THEN q ELSE Search(Rotate(q), group, group[Rotate(q).head])

\* sched(): the head goes to the end, and the next group that has a process
\* gets its turn.
sched(q, group) ==
    IF q.head = NIL THEN q ELSE Search(Rotate(q), group, group[q.head])
=============================================================================
