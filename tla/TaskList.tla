------------------------------- MODULE TaskList -------------------------------
(***************************************************************************)
(* The intrusive doubly linked task lists of the kernel.  A task control   *)
(* block has ONE pair of links, shared by the ready list and the wait list *)
(* the task may be on, and a list is a head, a tail and a count.  The      *)
(* operators take and return a record s with the fields                    *)
(*    next, prev : links of every task                                     *)
(*    head, tail, count : the three fields of every list                   *)
(* (and any others, which they leave alone), so that one handler may       *)
(* compose several of them.  Pointers are modelled as pointers: appending  *)
(* a task that is already linked, or removing one that is not, does to the *)
(* links what the code does.                                               *)
(***************************************************************************)
EXTENDS Integers, FiniteSets

CONSTANTS NULL,       \* the null pointer
          CountMod    \* list counts are unsigned and wrap at this value

\* List.count is a uint32_t: an increment or decrement wraps.
Inc(n) == (n + 1) % CountMod
Dec(n) == (n - 1) % CountMod

\* Mutation: the element is pushed at the front of a list that is not empty.
MutAppendFront(s, l, t) ==
  LET first == s.head[l]
      linked == [s EXCEPT !.next[t] = first, !.prev[t] = NULL,
                          !.head[l] = t, !.count[l] = Inc(@)]
  IN IF first = NULL THEN [linked EXCEPT !.tail[l] = t]
                     ELSE [linked EXCEPT !.prev[first] = t]

\* os_list_append: the new tail's links are written before the old tail's.
ListAppend(s, l, t) ==
  LET last == s.tail[l]
      linked == [s EXCEPT !.next[t] = NULL, !.prev[t] = last,
                          !.tail[l] = t, !.count[l] = Inc(@)]
  IN IF last = NULL THEN [linked EXCEPT !.head[l] = t]
                    ELSE [linked EXCEPT !.next[last] = t]

\* Mutation: the latest waiter goes first.
MutWaitAppend(s, l, t) ==
  LET first == s.head[l]
      linked == IF first = NULL THEN [s EXCEPT !.tail[l] = t]
                                ELSE [s EXCEPT !.prev[first] = t]
  IN [linked EXCEPT !.prev[t] = NULL, !.next[t] = first,
                    !.head[l] = t, !.count[l] = Inc(@)]

\* os_ipc_wait_list_append: as above, but the old tail is linked first, which
\* differs only when the task is the old tail.
WaitAppend(s, l, t) ==
  LET last == s.tail[l]
      linked == IF last = NULL THEN [s EXCEPT !.head[l] = t]
                               ELSE [s EXCEPT !.next[last] = t]
  IN [linked EXCEPT !.prev[t] = last, !.next[t] = NULL,
                    !.tail[l] = t, !.count[l] = Inc(@)]

\* os_list_remove and os_ipc_wait_list_remove: a missing neighbour means the
\* element is taken for the list's head or tail, without looking.
ListRemove(s, l, t) ==
  LET p == s.prev[t]
      n == s.next[t]
      left == IF p = NULL THEN [s EXCEPT !.head[l] = n] ELSE [s EXCEPT !.next[p] = n]
      right == IF n = NULL THEN [left EXCEPT !.tail[l] = p]
                           ELSE [left EXCEPT !.prev[n] = p]
  IN [right EXCEPT !.next[t] = NULL, !.prev[t] = NULL, !.count[l] = Dec(@)]

\* Mutation: the tail is kept when the list becomes empty.
MutListPopHead(s, l) ==
  LET t == s.head[l]
      n == s.next[t]
      popped == IF n = NULL THEN [s EXCEPT !.head[l] = NULL]
                            ELSE [s EXCEPT !.head[l] = n, !.prev[n] = NULL]
  IN [popped EXCEPT !.next[t] = NULL, !.prev[t] = NULL, !.count[l] = Dec(@)]

\* os_ipc_wait_list_pop_head on a list whose head is not NULL.
ListPopHead(s, l) ==
  LET t == s.head[l]
      n == s.next[t]
      popped == IF n = NULL THEN [s EXCEPT !.head[l] = NULL, !.tail[l] = NULL]
                            ELSE [s EXCEPT !.head[l] = n, !.prev[n] = NULL]
  IN [popped EXCEPT !.next[t] = NULL, !.prev[t] = NULL, !.count[l] = Dec(@)]

\* The first n elements met by following the next links from the head: the
\* walk of a reader, who stops at NULL.
Walk(s, l, n) ==
  LET node[i \in 1 .. n] ==
        IF i = 1 THEN s.head[l]
        ELSE LET before == node[i - 1]
             IN IF before = NULL THEN NULL ELSE s.next[before]
  IN node

\* The elements of a list, in a walk of at most n steps.
Members(s, l, n) == LET w == Walk(s, l, n) IN { w[i] : i \in 1 .. n } \ {NULL}

\* A list is well formed (for at most n tasks) when the walk ends, visits as
\* many elements as the count says, ends at the tail, and every link back is
\* the inverse of the link forth.
WellFormed(s, l, n) ==
  LET w == Walk(s, l, n + 1)
      size == s.count[l]
  IN /\ size <= n
     /\ \A i \in 1 .. n + 1 : (w[i] # NULL) <=> (i <= size)
     /\ s.tail[l] = IF size = 0 THEN NULL ELSE w[size]
     /\ \A i \in 1 .. size : s.prev[w[i]] = IF i = 1 THEN NULL ELSE w[i - 1]
=============================================================================
