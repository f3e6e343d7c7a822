------------------------------- MODULE Queues -------------------------------
(***************************************************************************)
(* The process queues of queuetab (include/queue.h, system/queue.c,        *)
(* getitem.c, insert.c, insertd.c).  A process occupies at most one node   *)
(* of queuetab, so the links of all the lists together are a function from *)
(* queue identifiers to sequences of process identifiers, and the keys are *)
(* a function from process identifiers to integers: a process has ONE key, *)
(* whichever list it is on, and keeps the last one while on none.          *)
(*                                                                         *)
(* Every operator takes the lists qs and, where it uses them, the keys ks, *)
(* and returns the lists or the keys after the call.                       *)
(***************************************************************************)
EXTENDS Integers, Sequences, SequencesExt

\* The key of a list's tail node: below every priority.
MINKEY == -2147483647 - 1

\* firstkey(q): the tail node answers when the list is empty.
firstkey(qs, ks, q) == IF qs[q] = << >> THEN MINKEY ELSE ks[Head(qs[q])]

\* Mutant: enqueue links pid just after the head node.
enqueueFirst(qs, pid, q) == [qs EXCEPT ![q] = <<pid>> \o @]

\* enqueue: link pid just before the tail node.
enqueue(qs, pid, q) == [qs EXCEPT ![q] = Append(@, pid)]

\* dequeue, getfirst: the lists without the first process of q.
dequeue(qs, q) == [qs EXCEPT ![q] = Tail(@)]

\* Mutant: getitem forgets to unlink the node.
getitemLinked(qs, pid) == qs

\* getitem: unlink pid from whichever list its node is linked into.
getitem(qs, pid) ==
    [q \in DOMAIN qs |->
        IF \E i \in 1..Len(qs[q]) : qs[q][i] = pid
        THEN RemoveAt(qs[q], CHOOSE i \in 1..Len(qs[q]) : qs[q][i] = pid)
        ELSE qs[q]]

\* Mutants of insert's scan: it stops at an equal key; it does not look at keys.
InsertPosBeforeEquals(s, ks, key) ==
    Min({i \in 1..(Len(s) + 1) : i <= Len(s) => ks[s[i]] <= key})
InsertPosLast(s, ks, key) == Len(s) + 1

\* insert's scan: the first node whose key is below key (the tail node is).
InsertPos(s, ks, key) ==
    Min({i \in 1..(Len(s) + 1) : i <= Len(s) => ks[s[i]] < key})

\* insert: the list is in descending order of keys, equal keys first come
\* first served.
insert(qs, ks, pid, q, key) ==
    [qs EXCEPT ![q] = InsertAt(@, InsertPos(@, ks, key), pid)]

insertKey(ks, pid, key) == [ks EXCEPT ![pid] = key]

\* The delay accumulated by the first n nodes of a delta list.
Elapsed(s, ks, n) ==
    LET sum[i \in 0..n] == IF i = 0 THEN 0 ELSE sum[i - 1] + ks[s[i]]
    IN  sum[n]

\* insertd's scan: walk on while the node's key is not above what is left
\* of the delay.
InsertdPos(s, ks, key) ==
    Min({i \in 1..(Len(s) + 1) :
            i <= Len(s) => ks[s[i]] > key - Elapsed(s, ks, i - 1)})

\* insertd: the new node keeps what is left of the delay, the node after it
\* gives up as much.
insertd(qs, ks, pid, q, key) ==
    [qs EXCEPT ![q] = InsertAt(@, InsertdPos(@, ks, key), pid)]

insertdKey(qs, ks, pid, q, key) ==
    LET s == qs[q]
        i == InsertdPos(s, ks, key)
        left == key - Elapsed(s, ks, i - 1)
    IN  [p \in DOMAIN ks |->
            IF p = pid THEN left
            ELSE IF i <= Len(s) /\ p = s[i] THEN ks[p] - left
            ELSE ks[p]]

\* Mutant: unsleep drops pid's delay.
unsleepKeyLost(qs, ks, pid, q) == ks

\* unsleep: the node after pid takes over pid's delay.
unsleepKey(qs, ks, pid, q) ==
    LET s == qs[q] IN
    [p \in DOMAIN ks |->
        IF \E i \in 1..(Len(s) - 1) : s[i] = pid /\ s[i + 1] = p
        THEN ks[p] + ks[pid]
        ELSE ks[p]]
=============================================================================
