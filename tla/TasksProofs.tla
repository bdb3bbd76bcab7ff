------------------------------ MODULE TasksProofs ------------------------------
(***************************************************************************)
(* Proofs about Tasks.  First the intrusive lists of TaskList, as the      *)
(* kernel's record uses them: an invariant of the links that tells which   *)
(* tasks each list holds, and that appending, removing and popping do to   *)
(* those sets of tasks what they should.  Then the types of the kernel's   *)
(* structures, and that at most one task is RUNNING and it is the current  *)
(* one, for any tasks, priorities, builds and applications.                *)
(***************************************************************************)
EXTENDS Tasks, WellFoundedInduction, FiniteSetTheorems, SequenceTheorems, TLAPS

\* A set of naturals that is not empty has a least element: induction, in the
\* form the provers can use.
LEMMA LeastNatural ==
  ASSUME NEW S \in SUBSET Nat, S # {}
  PROVE  \E m \in S : \A n \in S : m <= n
<1> DEFINE R == { p \in Nat \X Nat : p[1] < p[2] }
<1>1. IsWellFoundedOn(R, Nat)
  BY NatLessThanWellFounded DEF OpToRel
<1> HIDE DEF R
<1>2. PICK m \in S : \A n \in S : <<n, m>> \notin R
  BY <1>1, WFMin
<1>3. \A n \in S : ~(n < m)
  BY <1>2 DEF R
<1> QED
  BY <1>3

\* The fields of the kernel's record that are not of the lists, the states of tasks
\* excepted, and with them.
SameData(r, s) ==
  /\ r.prio = s.prio /\ r.base = s.base /\ r.slice = s.slice /\ r.wake = s.wake
  /\ r.guard = s.guard /\ r.wait = s.wait /\ r.deadline = s.deadline
  /\ r.result = s.result /\ r.table = s.table /\ r.cur = s.cur /\ r.pend = s.pend
  /\ r.lock = s.lock /\ r.tick = s.tick /\ r.running = s.running /\ r.at = s.at
  /\ r.i = s.i /\ r.build = s.build

SameRest(r, s) == SameData(r, s) /\ r.state = s.state

\* The fields of the lists, the bitmap excepted, and with it.
SameLinks(r, s) ==
  /\ r.next = s.next /\ r.prev = s.prev /\ r.head = s.head /\ r.tail = s.tail
  /\ r.count = s.count

SameLists(r, s) == SameLinks(r, s) /\ r.bitmap = s.bitmap

LEMMA SameTwice ==
  ASSUME NEW s, NEW r, NEW q, SameRest(r, s), SameRest(q, r)
  PROVE  SameRest(q, s)
<1>1. SameData(q, s)
  BY DEF SameRest, SameData
<1>2. q.state = s.state
  BY DEF SameRest
<1> QED
  BY <1>1, <1>2 DEF SameRest

-----------------------------------------------------------------------------
(* What the operators do to each field.                                    *)

LEMMA ListsNameTasks ==
  /\ Prio \subseteq List
  /\ WaitList \subseteq List
  /\ Task \subseteq Tcb /\ Idle \in Tcb /\ NULL \notin Tcb
  BY SchedAssumption DEF List, Tcb

LEMMA CountsWrap ==
  ASSUME NEW n \in 0 .. CountMod - 1
  PROVE  Inc(n) \in 0 .. CountMod - 1 /\ Dec(n) \in 0 .. CountMod - 1
  BY SchedAssumption DEF Inc, Dec

\* A write to one field of the lists.
LEMMA PutNext ==
  ASSUME NEW s \in KernelType, NEW t \in Tcb, NEW v \in Link
  PROVE  LET r == [s EXCEPT !.next[t] = v]
         IN /\ r \in KernelType /\ SameRest(r, s) /\ r.bitmap = s.bitmap
            /\ r.next = [s.next EXCEPT ![t] = v]
            /\ r.prev = s.prev /\ r.head = s.head /\ r.tail = s.tail /\ r.count = s.count
  BY DEF KernelType, SameRest, SameData

LEMMA PutPrev ==
  ASSUME NEW s \in KernelType, NEW t \in Tcb, NEW v \in Link
  PROVE  LET r == [s EXCEPT !.prev[t] = v]
         IN /\ r \in KernelType /\ SameRest(r, s) /\ r.bitmap = s.bitmap
            /\ r.prev = [s.prev EXCEPT ![t] = v]
            /\ r.next = s.next /\ r.head = s.head /\ r.tail = s.tail /\ r.count = s.count
  BY DEF KernelType, SameRest, SameData

LEMMA PutHead ==
  ASSUME NEW s \in KernelType, NEW l \in List, NEW v \in Link
  PROVE  LET r == [s EXCEPT !.head[l] = v]
         IN /\ r \in KernelType /\ SameRest(r, s) /\ r.bitmap = s.bitmap
            /\ r.head = [s.head EXCEPT ![l] = v]
            /\ r.next = s.next /\ r.prev = s.prev /\ r.tail = s.tail /\ r.count = s.count
  BY DEF KernelType, SameRest, SameData

LEMMA PutTail ==
  ASSUME NEW s \in KernelType, NEW l \in List, NEW v \in Link
  PROVE  LET r == [s EXCEPT !.tail[l] = v]
         IN /\ r \in KernelType /\ SameRest(r, s) /\ r.bitmap = s.bitmap
            /\ r.tail = [s.tail EXCEPT ![l] = v]
            /\ r.next = s.next /\ r.prev = s.prev /\ r.head = s.head /\ r.count = s.count
  BY DEF KernelType, SameRest, SameData

LEMMA PutCount ==
  ASSUME NEW s \in KernelType, NEW l \in List, NEW v \in 0 .. CountMod - 1
  PROVE  LET r == [s EXCEPT !.count[l] = v]
         IN /\ r \in KernelType /\ SameRest(r, s) /\ r.bitmap = s.bitmap
            /\ r.count = [s.count EXCEPT ![l] = v]
            /\ r.next = s.next /\ r.prev = s.prev /\ r.head = s.head /\ r.tail = s.tail
  BY DEF KernelType, SameRest, SameData

LEMMA PutBitmap ==
  ASSUME NEW s \in KernelType, NEW v \in SUBSET Prio
  PROVE  LET r == [s EXCEPT !.bitmap = v]
         IN /\ r \in KernelType /\ SameRest(r, s) /\ r.bitmap = v
            /\ r.next = s.next /\ r.prev = s.prev /\ r.head = s.head /\ r.tail = s.tail
            /\ r.count = s.count
  BY DEF KernelType, SameRest, SameData

\* The state of a task is written.
LEMMA PutState ==
  ASSUME NEW s \in KernelType, NEW t \in Tcb, NEW v \in States
  PROVE  LET r == [s EXCEPT !.state[t] = v]
         IN /\ r \in KernelType /\ SameData(r, s) /\ r.state = [s.state EXCEPT ![t] = v]
            /\ r.next = s.next /\ r.prev = s.prev /\ r.head = s.head /\ r.tail = s.tail
            /\ r.count = s.count /\ r.bitmap = s.bitmap
<1> DEFINE state == [s.state EXCEPT ![t] = v]
           r == [s EXCEPT !.state = state]
<1>1. [s EXCEPT !.state[t] = v] = r
  BY DEF KernelType
<1>2. state \in [Tcb -> States]
  BY DEF KernelType
<1> HIDE DEF state
<1>3. r \in KernelType
  BY <1>2 DEF KernelType
<1>4. SameData(r, s) /\ r.state = state
  BY DEF SameData, KernelType
<1>5. /\ r.next = s.next /\ r.prev = s.prev /\ r.head = s.head /\ r.tail = s.tail
      /\ r.count = s.count /\ r.bitmap = s.bitmap
  BY DEF KernelType
<1> QED
  BY <1>1, <1>3, <1>4, <1>5 DEF state

\* os_list_append
LEMMA AppendFields ==
  ASSUME NEW s \in KernelType, NEW l \in List, NEW t \in Tcb,
         NEW r, r = ListAppend(s, l, t), NEW last, last = s.tail[l]
  PROVE  /\ r \in KernelType
         /\ SameRest(r, s) /\ r.bitmap = s.bitmap
         /\ \A u \in Tcb :
              /\ r.next[u] = IF u = last THEN t ELSE IF u = t THEN NULL ELSE s.next[u]
              /\ r.prev[u] = IF u = t THEN last ELSE s.prev[u]
         /\ \A m \in List :
              /\ r.head[m] = IF m = l /\ last = NULL THEN t ELSE s.head[m]
              /\ r.tail[m] = IF m = l THEN t ELSE s.tail[m]
              /\ r.count[m] = IF m = l THEN Inc(s.count[m]) ELSE s.count[m]
<1> DEFINE count == Inc(s.count[l])
           a == [s EXCEPT !.next[t] = NULL]
           b == [a EXCEPT !.prev[t] = last]
           c == [b EXCEPT !.tail[l] = t]
           d == [c EXCEPT !.count[l] = count]
<1>1. last \in Link /\ NULL \in Link /\ t \in Link /\ count \in 0 .. CountMod - 1
  BY CountsWrap DEF KernelType, Link
<1>2. r = IF last = NULL THEN [d EXCEPT !.head[l] = t] ELSE [d EXCEPT !.next[last] = t]
  BY DEF ListAppend, KernelType
<1>3. (last = NULL \/ last \in Tcb) /\ \A u \in Tcb : u # NULL
  BY <1>1, ListsNameTasks DEF Link
<1>4. /\ a \in KernelType /\ SameRest(a, s) /\ a.bitmap = s.bitmap
      /\ a.next = [s.next EXCEPT ![t] = NULL]
      /\ a.prev = s.prev /\ a.head = s.head /\ a.tail = s.tail /\ a.count = s.count
  BY <1>1, PutNext
<1> HIDE DEF count, a
<1>5. /\ b \in KernelType /\ SameRest(b, a) /\ b.bitmap = a.bitmap
      /\ b.prev = [a.prev EXCEPT ![t] = last]
      /\ b.next = a.next /\ b.head = a.head /\ b.tail = a.tail /\ b.count = a.count
  BY <1>1, <1>4, PutPrev
<1> HIDE DEF b
<1>6. /\ c \in KernelType /\ SameRest(c, b) /\ c.bitmap = b.bitmap
      /\ c.tail = [b.tail EXCEPT ![l] = t]
      /\ c.next = b.next /\ c.prev = b.prev /\ c.head = b.head /\ c.count = b.count
  BY <1>1, <1>5, PutTail
<1> HIDE DEF c
<1>7. /\ d \in KernelType /\ SameRest(d, c) /\ d.bitmap = c.bitmap
      /\ d.count = [c.count EXCEPT ![l] = count]
      /\ d.next = c.next /\ d.prev = c.prev /\ d.head = c.head /\ d.tail = c.tail
  BY <1>1, <1>6, PutCount
<1> HIDE DEF d
<1>8. /\ d.next = [s.next EXCEPT ![t] = NULL] /\ d.prev = [s.prev EXCEPT ![t] = last]
      /\ d.head = s.head /\ d.tail = [s.tail EXCEPT ![l] = t]
      /\ d.count = [s.count EXCEPT ![l] = count]
      /\ SameRest(d, s) /\ d.bitmap = s.bitmap
  BY <1>4, <1>5, <1>6, <1>7 DEF SameRest, SameData
<1>9. /\ s.next \in [Tcb -> Link] /\ s.prev \in [Tcb -> Link] /\ s.head \in [List -> Link]
      /\ s.tail \in [List -> Link] /\ s.count \in [List -> 0 .. CountMod - 1]
  BY DEF KernelType
<1>10. CASE last = NULL
  <2>1. /\ r \in KernelType /\ SameRest(r, d) /\ r.bitmap = d.bitmap
        /\ r.head = [d.head EXCEPT ![l] = t]
        /\ r.next = d.next /\ r.prev = d.prev /\ r.tail = d.tail /\ r.count = d.count
    BY <1>1, <1>2, <1>7, <1>10, PutHead
  <2>2. SameRest(r, s)
    BY <1>8, <2>1 DEF SameRest, SameData
  <2>3. \A u \in Tcb :
          /\ r.next[u] = IF u = last THEN t ELSE IF u = t THEN NULL ELSE s.next[u]
          /\ r.prev[u] = IF u = t THEN last ELSE s.prev[u]
    <3>1. r.next = [s.next EXCEPT ![t] = NULL] /\ r.prev = [s.prev EXCEPT ![t] = last]
      BY <1>8, <2>1
    <3> QED
      BY <1>3, <1>9, <1>10, <3>1
  <2>4. \A m \in List :
          /\ r.head[m] = IF m = l /\ last = NULL THEN t ELSE s.head[m]
          /\ r.tail[m] = IF m = l THEN t ELSE s.tail[m]
    BY <1>8, <1>9, <1>10, <2>1
  <2>5. \A m \in List : r.count[m] = IF m = l THEN Inc(s.count[m]) ELSE s.count[m]
    BY <1>8, <1>9, <2>1 DEF count
  <2> QED
    BY <1>8, <2>1, <2>2, <2>3, <2>4, <2>5
<1>11. CASE last # NULL
  <2>1. /\ r \in KernelType /\ SameRest(r, d) /\ r.bitmap = d.bitmap
        /\ r.next = [d.next EXCEPT ![last] = t]
        /\ r.prev = d.prev /\ r.head = d.head /\ r.tail = d.tail /\ r.count = d.count
    BY <1>1, <1>2, <1>3, <1>7, <1>11, PutNext
  <2>2. SameRest(r, s)
    BY <1>8, <2>1 DEF SameRest, SameData
  <2> QED
    BY <1>3, <1>8, <1>9, <1>11, <2>1, <2>2 DEF count
<1> QED
  BY <1>10, <1>11

\* os_list_remove
LEMMA RemoveFields ==
  ASSUME NEW s \in KernelType, NEW l \in List, NEW t \in Tcb,
         NEW r, r = ListRemove(s, l, t), NEW p, p = s.prev[t], NEW n, n = s.next[t]
  PROVE  /\ r \in KernelType
         /\ SameRest(r, s) /\ r.bitmap = s.bitmap
         /\ \A u \in Tcb :
              /\ r.next[u] = IF u = t THEN NULL ELSE IF u = p THEN n ELSE s.next[u]
              /\ r.prev[u] = IF u = t THEN NULL ELSE IF u = n THEN p ELSE s.prev[u]
         /\ \A m \in List :
              /\ r.head[m] = IF m = l /\ p = NULL THEN n ELSE s.head[m]
              /\ r.tail[m] = IF m = l /\ n = NULL THEN p ELSE s.tail[m]
              /\ r.count[m] = IF m = l THEN Dec(s.count[m]) ELSE s.count[m]
<1> DEFINE left == IF p = NULL THEN [s EXCEPT !.head[l] = n] ELSE [s EXCEPT !.next[p] = n]
           right == IF n = NULL THEN [left EXCEPT !.tail[l] = p]
                                ELSE [left EXCEPT !.prev[n] = p]
           a == [right EXCEPT !.next[t] = NULL]
           b == [a EXCEPT !.prev[t] = NULL]
           c == [b EXCEPT !.count[l] = Dec(b.count[l])]
<1>1. /\ p \in Link /\ n \in Link /\ NULL \in Link
      /\ s.next \in [Tcb -> Link] /\ s.prev \in [Tcb -> Link] /\ s.head \in [List -> Link]
      /\ s.tail \in [List -> Link] /\ s.count \in [List -> 0 .. CountMod - 1]
  BY DEF KernelType, Link
<1>2. (p = NULL \/ p \in Tcb) /\ (n = NULL \/ n \in Tcb) /\ \A u \in Tcb : u # NULL
  BY <1>1, ListsNameTasks DEF Link
<1>3. r = c
  BY DEF ListRemove, KernelType
<1>4. /\ left \in KernelType /\ SameRest(left, s) /\ left.bitmap = s.bitmap
      /\ left.next = IF p = NULL THEN s.next ELSE [s.next EXCEPT ![p] = n]
      /\ left.head = IF p = NULL THEN [s.head EXCEPT ![l] = n] ELSE s.head
      /\ left.prev = s.prev /\ left.tail = s.tail /\ left.count = s.count
  <2>1. CASE p = NULL
    <3>1. /\ left \in KernelType /\ SameRest(left, s) /\ left.bitmap = s.bitmap
          /\ left.next = s.next /\ left.head = [s.head EXCEPT ![l] = n]
          /\ left.prev = s.prev /\ left.tail = s.tail /\ left.count = s.count
      BY <1>1, <2>1, PutHead
    <3> QED
      BY <2>1, <3>1
  <2>2. CASE p # NULL
    <3>1. /\ left \in KernelType /\ SameRest(left, s) /\ left.bitmap = s.bitmap
          /\ left.next = [s.next EXCEPT ![p] = n] /\ left.head = s.head
          /\ left.prev = s.prev /\ left.tail = s.tail /\ left.count = s.count
      BY <1>1, <1>2, <2>2, PutNext
    <3> HIDE DEF left
    <3> QED
      BY <2>2, <3>1
  <2> QED
    BY <2>1, <2>2
<1> HIDE DEF left
<1>5. /\ right \in KernelType /\ SameRest(right, left) /\ right.bitmap = left.bitmap
      /\ right.prev = IF n = NULL THEN left.prev ELSE [left.prev EXCEPT ![n] = p]
      /\ right.tail = IF n = NULL THEN [left.tail EXCEPT ![l] = p] ELSE left.tail
      /\ right.next = left.next /\ right.head = left.head /\ right.count = left.count
  <2>1. CASE n = NULL
    <3>1. /\ right \in KernelType /\ SameRest(right, left) /\ right.bitmap = left.bitmap
          /\ right.prev = left.prev /\ right.tail = [left.tail EXCEPT ![l] = p]
          /\ right.next = left.next /\ right.head = left.head /\ right.count = left.count
      BY <1>1, <1>4, <2>1, PutTail
    <3> HIDE DEF right
    <3> QED
      BY <2>1, <3>1
  <2>2. CASE n # NULL
    <3>1. /\ right \in KernelType /\ SameRest(right, left) /\ right.bitmap = left.bitmap
          /\ right.prev = [left.prev EXCEPT ![n] = p] /\ right.tail = left.tail
          /\ right.next = left.next /\ right.head = left.head /\ right.count = left.count
      BY <1>1, <1>2, <1>4, <2>2, PutPrev
    <3> HIDE DEF right
    <3> QED
      BY <2>2, <3>1
  <2> QED
    BY <2>1, <2>2
<1> HIDE DEF right
<1>6. /\ a \in KernelType /\ SameRest(a, right) /\ a.bitmap = right.bitmap
      /\ a.next = [right.next EXCEPT ![t] = NULL] /\ a.prev = right.prev
      /\ a.head = right.head /\ a.tail = right.tail /\ a.count = right.count
  BY <1>1, <1>5, PutNext
<1> HIDE DEF a
<1>7. /\ b \in KernelType /\ SameRest(b, a) /\ b.bitmap = a.bitmap
      /\ b.prev = [a.prev EXCEPT ![t] = NULL] /\ b.next = a.next
      /\ b.head = a.head /\ b.tail = a.tail /\ b.count = a.count
  BY <1>1, <1>6, PutPrev
<1> HIDE DEF b
<1>8. Dec(b.count[l]) \in 0 .. CountMod - 1
  BY <1>7, CountsWrap DEF KernelType
<1>9. /\ c \in KernelType /\ SameRest(c, b) /\ c.bitmap = b.bitmap
      /\ c.count = [b.count EXCEPT ![l] = Dec(b.count[l])]
      /\ c.next = b.next /\ c.prev = b.prev /\ c.head = b.head /\ c.tail = b.tail
  BY <1>7, <1>8, PutCount
<1> HIDE DEF c
<1>10. SameRest(r, s)
  <2>1. SameRest(right, s)
    BY <1>4, <1>5 DEF SameRest, SameData
  <2>2. SameRest(c, right)
    BY <1>6, <1>7, <1>9 DEF SameRest, SameData
  <2> QED
    BY <1>3, <2>1, <2>2 DEF SameRest, SameData
<1>11. r \in KernelType /\ r.bitmap = s.bitmap
  BY <1>3, <1>4, <1>5, <1>6, <1>7, <1>9
<1>12. r.next = [left.next EXCEPT ![t] = NULL] /\ r.prev = [right.prev EXCEPT ![t] = NULL]
  BY <1>3, <1>5, <1>6, <1>7, <1>9
<1>13. ASSUME NEW u \in Tcb
       PROVE  /\ r.next[u] = IF u = t THEN NULL ELSE IF u = p THEN n ELSE s.next[u]
              /\ r.prev[u] = IF u = t THEN NULL ELSE IF u = n THEN p ELSE s.prev[u]
  <2>1. left.next \in [Tcb -> Link] /\ right.prev \in [Tcb -> Link] /\ left.prev = s.prev
    BY <1>4, <1>5 DEF KernelType
  <2>2. left.next[u] = IF u = p THEN n ELSE s.next[u]
    BY <1>1, <1>2, <1>4
  <2>3. right.prev[u] = IF u = n THEN p ELSE s.prev[u]
    BY <1>1, <1>2, <1>5, <2>1
  <2> QED
    BY <1>12, <2>1, <2>2, <2>3
<1>14. r.head = left.head /\ r.tail = right.tail
       /\ r.count = [s.count EXCEPT ![l] = Dec(s.count[l])]
  BY <1>3, <1>4, <1>5, <1>6, <1>7, <1>9
<1>15. ASSUME NEW m \in List
       PROVE  /\ r.head[m] = IF m = l /\ p = NULL THEN n ELSE s.head[m]
              /\ r.tail[m] = IF m = l /\ n = NULL THEN p ELSE s.tail[m]
              /\ r.count[m] = IF m = l THEN Dec(s.count[m]) ELSE s.count[m]
  <2>1. left.tail = s.tail
    BY <1>4
  <2>2. r.head[m] = IF m = l /\ p = NULL THEN n ELSE s.head[m]
    BY <1>1, <1>4, <1>14
  <2>3. r.tail[m] = IF m = l /\ n = NULL THEN p ELSE s.tail[m]
    BY <1>1, <1>5, <1>14, <2>1
  <2> QED
    BY <1>1, <1>14, <2>2, <2>3
<1> QED
  BY <1>10, <1>11, <1>13, <1>15

-----------------------------------------------------------------------------
(* Chains.                                                                 *)

\* List l holds q[1], ..., q[n] in this order: no task twice, head and tail at the
\* ends, each link forth and back to the neighbour, and their number in count.
IsChain(s, l, n, q) ==
  /\ \A i, j \in 1 .. n : q[i] = q[j] => i = j
  /\ s.head[l] = IF n = 0 THEN NULL ELSE q[1]
  /\ s.tail[l] = IF n = 0 THEN NULL ELSE q[n]
  /\ s.count[l] = n
  /\ \A i \in 1 .. n : /\ s.next[q[i]] = IF i = n THEN NULL ELSE q[i + 1]
                       /\ s.prev[q[i]] = IF i = 1 THEN NULL ELSE q[i - 1]

\* List l holds the tasks of S, in some order.
Chained(s, l, S) ==
  \E n \in Nat : \E q \in [1 .. n -> Tcb] : IsChain(s, l, n, q) /\ S = { q[i] : i \in 1 .. n }

\* A list without repetitions has no more elements than there are tasks.
LEMMA ChainBound ==
  ASSUME NEW n \in Nat, NEW q \in [1 .. n -> Tcb],
         \A i, j \in 1 .. n : q[i] = q[j] => i = j
  PROVE  n <= Cardinality(Tcb) /\ Cardinality(Tcb) \in Nat
<1>1. IsFiniteSet(Tcb)
  <2>1. Tcb = Task \cup {Idle}
    BY DEF Tcb
  <2> QED
    BY <2>1, ListAssumption, FS_AddElement
<1>2. q \in Injection(1 .. n, Tcb)
  BY DEF Injection, IsInjective
<1>3. Cardinality(1 .. n) <= Cardinality(Tcb)
  BY <1>1, <1>2, FS_Injection
<1>4. Cardinality(1 .. n) = IF 1 > n THEN 0 ELSE n - 1 + 1
  BY FS_Interval
<1> QED
  BY <1>1, <1>3, <1>4, FS_CardinalityType

\* A list that is left alone stays what it is.
LEMMA ChainStays ==
  ASSUME NEW s, NEW r, NEW l, NEW S, Chained(s, l, S),
         \A u \in S : r.next[u] = s.next[u] /\ r.prev[u] = s.prev[u],
         r.head[l] = s.head[l], r.tail[l] = s.tail[l], r.count[l] = s.count[l]
  PROVE  Chained(r, l, S)
<1>1. PICK n \in Nat :
        \E q \in [1 .. n -> Tcb] : IsChain(s, l, n, q) /\ S = { q[i] : i \in 1 .. n }
  BY DEF Chained
<1>2. PICK q \in [1 .. n -> Tcb] : IsChain(s, l, n, q) /\ S = { q[i] : i \in 1 .. n }
  BY <1>1
<1>3. \A i \in 1 .. n : r.next[q[i]] = s.next[q[i]] /\ r.prev[q[i]] = s.prev[q[i]]
  BY <1>2
<1>4. IsChain(r, l, n, q)
  BY <1>2, <1>3 DEF IsChain
<1> QED
  BY <1>2, <1>4 DEF Chained

\* The first and the last of a list are its own, and there are such unless it is empty.
LEMMA ChainEnds ==
  ASSUME NEW s, NEW l, NEW S, Chained(s, l, S)
  PROVE  /\ S \subseteq Tcb
         /\ S = {} <=> s.head[l] = NULL
         /\ S = {} <=> s.tail[l] = NULL
         /\ S = {} <=> s.count[l] = 0
         /\ S # {} => s.head[l] \in S /\ s.tail[l] \in S /\ s.prev[s.head[l]] = NULL
<1>1. PICK n \in Nat :
        \E q \in [1 .. n -> Tcb] : IsChain(s, l, n, q) /\ S = { q[i] : i \in 1 .. n }
  BY DEF Chained
<1>2. PICK q \in [1 .. n -> Tcb] : IsChain(s, l, n, q) /\ S = { q[i] : i \in 1 .. n }
  BY <1>1
<1>3. NULL \notin Tcb
  BY ListsNameTasks
<1>4. CASE n = 0
  BY <1>2, <1>4 DEF IsChain
<1>5. CASE n # 0
  <2>1. 1 \in 1 .. n /\ n \in 1 .. n /\ q[1] \in S /\ q[n] \in S /\ q[1] \in Tcb /\ q[n] \in Tcb
    BY <1>2, <1>5
  <2>2. s.head[l] = q[1] /\ s.tail[l] = q[n] /\ s.count[l] = n /\ s.prev[q[1]] = NULL
    BY <1>2, <1>5, <2>1 DEF IsChain
  <2> QED
    BY <1>2, <1>3, <1>5, <2>1, <2>2
<1> QED
  BY <1>4, <1>5

\* The neighbours of a task on a list are on it too.
LEMMA ChainNeighbours ==
  ASSUME NEW s, NEW l, NEW S, Chained(s, l, S), NEW t \in S
  PROVE  s.next[t] \in S \cup {NULL} /\ s.prev[t] \in S \cup {NULL}
<1>1. PICK n \in Nat :
        \E q \in [1 .. n -> Tcb] : IsChain(s, l, n, q) /\ S = { q[i] : i \in 1 .. n }
  BY DEF Chained
<1>2. PICK q \in [1 .. n -> Tcb] : IsChain(s, l, n, q) /\ S = { q[i] : i \in 1 .. n }
  BY <1>1
<1>3. PICK i \in 1 .. n : t = q[i]
  BY <1>2
<1>4. /\ s.next[t] = IF i = n THEN NULL ELSE q[i + 1]
      /\ s.prev[t] = IF i = 1 THEN NULL ELSE q[i - 1]
  BY <1>2, <1>3 DEF IsChain
<1>5. (i = n \/ i + 1 \in 1 .. n) /\ (i = 1 \/ i - 1 \in 1 .. n)
  OBVIOUS
<1> QED
  BY <1>2, <1>4, <1>5

\* os_list_append of a task that is on no list puts it behind the others.
LEMMA AppendIsChain ==
  ASSUME NEW s \in KernelType, NEW l \in List, NEW t \in Tcb,
         NEW n \in Nat, NEW q \in [1 .. n -> Tcb], IsChain(s, l, n, q), \A i \in 1 .. n : q[i] # t,
         NEW w, w = [i \in 1 .. n + 1 |-> IF i = n + 1 THEN t ELSE q[i]]
  PROVE  w \in [1 .. n + 1 -> Tcb] /\ IsChain(ListAppend(s, l, t), l, n + 1, w)
<1> DEFINE r == ListAppend(s, l, t)
           last == s.tail[l]
<1>1. w \in [1 .. n + 1 -> Tcb]
  OBVIOUS
<1>2. \A i, j \in 1 .. n + 1 : w[i] = w[j] => i = j
  <2>1. \A i \in 1 .. n : q[i] # t
    OBVIOUS
  <2>2. \A i, j \in 1 .. n : q[i] = q[j] => i = j
    BY DEF IsChain
  <2> QED
    BY <2>1, <2>2
<1>3. Inc(n) = n + 1
  <2>1. n + 1 <= Cardinality(Tcb) /\ Cardinality(Tcb) \in Nat
    BY <1>1, <1>2, ChainBound
  <2>2. n + 1 < CountMod
    BY <2>1, ListAssumption, SchedAssumption
  <2> QED
    BY <2>2, SchedAssumption DEF Inc
<1>4. r = ListAppend(s, l, t)
  OBVIOUS
<1> HIDE DEF r
<1>5. last = s.tail[l]
  OBVIOUS
<1> HIDE DEF last
<1>6. /\ \A u \in Tcb :
           /\ r.next[u] = IF u = last THEN t ELSE IF u = t THEN NULL ELSE s.next[u]
           /\ r.prev[u] = IF u = t THEN last ELSE s.prev[u]
      /\ r.head[l] = IF last = NULL THEN t ELSE s.head[l]
      /\ r.tail[l] = t
      /\ r.count[l] = Inc(s.count[l])
  BY <1>4, <1>5, AppendFields
<1>7. r.tail[l] = w[n + 1] /\ r.count[l] = n + 1
  BY <1>3, <1>5, <1>6 DEF IsChain
<1>8. r.head[l] = w[1]
  <2>1. last = NULL <=> n = 0
    BY <1>5, ListsNameTasks DEF IsChain
  <2>2. CASE n = 0
    BY <1>5, <1>6, <2>1, <2>2
  <2>3. CASE n # 0
    BY <1>5, <1>6, <2>1, <2>3 DEF IsChain
  <2> QED
    BY <2>2, <2>3
<1>9. ASSUME NEW i \in 1 .. n + 1
      PROVE  /\ r.next[w[i]] = IF i = n + 1 THEN NULL ELSE w[i + 1]
             /\ r.prev[w[i]] = IF i = 1 THEN NULL ELSE w[i - 1]
  <2>1. CASE i = n + 1
    <3>1. last = IF n = 0 THEN NULL ELSE q[n]
      BY <1>5 DEF IsChain
    <3>2. last # t
      BY <3>1, ListsNameTasks
    <3> QED
      BY <1>5, <1>6, <2>1, <3>1, <3>2
  <2>2. CASE i # n + 1
    <3>1. i \in 1 .. n /\ w[i] = q[i] /\ q[i] # t /\ q[i] \in Tcb
      BY <2>2
    <3>2. last = q[n] /\ n \in 1 .. n
      BY <1>5, <3>1 DEF IsChain
    <3>3. /\ s.next[q[i]] = IF i = n THEN NULL ELSE q[i + 1]
          /\ s.prev[q[i]] = IF i = 1 THEN NULL ELSE q[i - 1]
      BY <3>1 DEF IsChain
    <3>4. r.prev[w[i]] = IF i = 1 THEN NULL ELSE w[i - 1]
      BY <1>5, <1>6, <3>1, <3>3
    <3>5. q[i] = last <=> i = n
      BY <3>1, <3>2 DEF IsChain
    <3>6. r.next[w[i]] = w[i + 1]
      BY <1>6, <3>1, <3>2, <3>3, <3>5
    <3> QED
      BY <2>2, <3>4, <3>6
  <2> QED
    BY <2>1, <2>2
<1>10. IsChain(r, l, n + 1, w)
  BY <1>2, <1>7, <1>8, <1>9 DEF IsChain
<1> QED
  BY <1>1, <1>10 DEF r

\* The sequence q of n tasks with t behind them.
Longer(q, n, t) == [i \in 1 .. n + 1 |-> IF i = n + 1 THEN t ELSE q[i]]

LEMMA AppendLengthens ==
  ASSUME NEW s \in KernelType, NEW l \in List, NEW t \in Tcb,
         NEW n \in Nat, NEW q \in [1 .. n -> Tcb], IsChain(s, l, n, q), \A i \in 1 .. n : q[i] # t,
         NEW r, r = ListAppend(s, l, t)
  PROVE  Longer(q, n, t) \in [1 .. n + 1 -> Tcb] /\ IsChain(r, l, n + 1, Longer(q, n, t))
<1> DEFINE w == Longer(q, n, t)
<1>1. w = [i \in 1 .. n + 1 |-> IF i = n + 1 THEN t ELSE q[i]]
  BY DEF Longer
<1> HIDE DEF w
<1>2. w \in [1 .. n + 1 -> Tcb] /\ IsChain(ListAppend(s, l, t), l, n + 1, w)
  BY <1>1, AppendIsChain
<1> QED
  BY <1>2 DEF w

LEMMA AppendChains ==
  ASSUME NEW s \in KernelType, NEW l \in List, NEW t \in Tcb, NEW S, Chained(s, l, S), t \notin S
  PROVE  Chained(ListAppend(s, l, t), l, S \cup {t})
<1>1. PICK n \in Nat :
        \E q \in [1 .. n -> Tcb] : IsChain(s, l, n, q) /\ S = { q[i] : i \in 1 .. n }
  BY DEF Chained
<1>2. PICK q \in [1 .. n -> Tcb] : IsChain(s, l, n, q) /\ S = { q[i] : i \in 1 .. n }
  BY <1>1
<1> DEFINE w == [i \in 1 .. n + 1 |-> IF i = n + 1 THEN t ELSE q[i]]
<1>3. \A i \in 1 .. n : q[i] # t
  BY <1>2
<1>4. w \in [1 .. n + 1 -> Tcb] /\ IsChain(ListAppend(s, l, t), l, n + 1, w)
  <2>1. w = [i \in 1 .. n + 1 |-> IF i = n + 1 THEN t ELSE q[i]]
    OBVIOUS
  <2> HIDE DEF w
  <2> QED
    BY <1>2, <1>3, <2>1, AppendIsChain
<1>5. S \cup {t} = { w[i] : i \in 1 .. n + 1 }
  <2>1. \A i \in 1 .. n : w[i] = q[i] /\ i \in 1 .. n + 1
    OBVIOUS
  <2>2. w[n + 1] = t /\ n + 1 \in 1 .. n + 1
    OBVIOUS
  <2>3. \A i \in 1 .. n + 1 : i = n + 1 \/ i \in 1 .. n
    OBVIOUS
  <2> HIDE DEF w
  <2> QED
    BY <1>2, <2>1, <2>2, <2>3
<1> HIDE DEF w
<1>6. n + 1 \in Nat
  OBVIOUS
<1> QED
  BY <1>4, <1>5, <1>6 DEF Chained

\* The sequence q of n tasks closed up without the one at j.
Closed(q, n, j) == [i \in 1 .. n - 1 |-> IF i < j THEN q[i] ELSE q[i + 1]]

\* os_list_remove of a task that is on the list: the others close up.
LEMMA RemoveCloses ==
  ASSUME NEW s \in KernelType, NEW l \in List, NEW n \in Nat, NEW q \in [1 .. n -> Tcb],
         IsChain(s, l, n, q), NEW j \in 1 .. n, NEW t, t = q[j], NEW r, r = ListRemove(s, l, t)
  PROVE  /\ n - 1 \in Nat /\ Closed(q, n, j) \in [1 .. n - 1 -> Tcb]
         /\ IsChain(r, l, n - 1, Closed(q, n, j))
<1> DEFINE w == Closed(q, n, j)
           p == s.prev[t]
           x == s.next[t]
<1>1. IsChain(s, l, n, q)
  OBVIOUS
<1>2. j \in 1 .. n /\ t = q[j] /\ w = [i \in 1 .. n - 1 |-> IF i < j THEN q[i] ELSE q[i + 1]]
  BY DEF Closed
<1> HIDE DEF w
<1>3. /\ n - 1 \in Nat /\ w \in [1 .. n - 1 -> Tcb] /\ t \in Tcb
      /\ \A i \in 1 .. n - 1 : i \in 1 .. n /\ i + 1 \in 1 .. n
  BY <1>2
<1>4. \A i, m \in 1 .. n : q[i] = q[m] => i = m
  BY <1>1 DEF IsChain
<1>5. /\ p = IF j = 1 THEN NULL ELSE q[j - 1]
      /\ x = IF j = n THEN NULL ELSE q[j + 1]
  BY <1>1, <1>2 DEF IsChain
<1>6. r = ListRemove(s, l, t) /\ p = s.prev[t] /\ x = s.next[t]
  OBVIOUS
<1> HIDE DEF p, x
<1>7. /\ \A u \in Tcb :
           /\ r.next[u] = IF u = t THEN NULL ELSE IF u = p THEN x ELSE s.next[u]
           /\ r.prev[u] = IF u = t THEN NULL ELSE IF u = x THEN p ELSE s.prev[u]
      /\ r.head[l] = IF p = NULL THEN x ELSE s.head[l]
      /\ r.tail[l] = IF x = NULL THEN p ELSE s.tail[l]
      /\ r.count[l] = Dec(s.count[l])
  BY <1>3, <1>6, RemoveFields
<1>8. \A i, m \in 1 .. n - 1 : w[i] = w[m] => i = m
  BY <1>2, <1>3, <1>4
<1>9. r.count[l] = n - 1
  <2>1. s.count[l] = n /\ s.count[l] \in 0 .. CountMod - 1 /\ CountMod \in Nat \ {0}
    BY <1>1, SchedAssumption DEF IsChain, KernelType
  <2>2. n - 1 \in 0 .. CountMod - 1
    BY <1>2, <2>1
  <2>3. (n - 1) % CountMod = n - 1
    BY <2>1, <2>2
  <2> QED
    BY <1>7, <2>1, <2>3 DEF Dec
<1>10. \A i \in 1 .. n : q[i] \in Tcb /\ q[i] # NULL
  BY ListsNameTasks
<1>11. /\ r.head[l] = IF n - 1 = 0 THEN NULL ELSE w[1]
       /\ r.tail[l] = IF n - 1 = 0 THEN NULL ELSE w[n - 1]
  <2>1. s.head[l] = q[1] /\ s.tail[l] = q[n]
    BY <1>1, <1>2 DEF IsChain
  <2>2. (p = NULL <=> j = 1) /\ (x = NULL <=> j = n)
    BY <1>2, <1>5, <1>10
  <2>3. r.head[l] = IF n - 1 = 0 THEN NULL ELSE w[1]
    BY <1>2, <1>5, <1>7, <2>1, <2>2
  <2>4. r.tail[l] = IF n - 1 = 0 THEN NULL ELSE w[n - 1]
    BY <1>2, <1>5, <1>7, <2>1, <2>2
  <2> QED
    BY <2>3, <2>4
<1>12. ASSUME NEW i \in 1 .. n - 1
       PROVE  /\ r.next[w[i]] = IF i = n - 1 THEN NULL ELSE w[i + 1]
              /\ r.prev[w[i]] = IF i = 1 THEN NULL ELSE w[i - 1]
  <2>1. \A m \in 1 .. n : /\ s.next[q[m]] = IF m = n THEN NULL ELSE q[m + 1]
                          /\ s.prev[q[m]] = IF m = 1 THEN NULL ELSE q[m - 1]
    BY <1>1 DEF IsChain
  <2>2. ASSUME NEW m \in 1 .. n, m # j
        PROVE  /\ r.next[q[m]] = IF m = j - 1 THEN x ELSE s.next[q[m]]
               /\ r.prev[q[m]] = IF m = j + 1 THEN p ELSE s.prev[q[m]]
    <3>1. q[m] \in Tcb /\ q[m] # t
      BY <1>2, <1>4, <2>2
    <3>2. q[m] = p <=> m = j - 1
      BY <1>2, <1>4, <1>5, <1>10, <2>2
    <3>3. q[m] = x <=> m = j + 1
      BY <1>2, <1>4, <1>5, <1>10, <2>2
    <3> QED
      BY <1>7, <3>1, <3>2, <3>3
  <2>3. CASE i < j
    <3>1. w[i] = q[i] /\ i \in 1 .. n /\ i # j
      BY <1>2, <1>3, <2>3
    <3>2. r.next[q[i]] = IF i = n - 1 THEN NULL ELSE w[i + 1]
      BY <1>2, <1>3, <1>5, <2>1, <2>2, <2>3, <3>1
    <3>3. r.prev[q[i]] = IF i = 1 THEN NULL ELSE w[i - 1]
      BY <1>2, <1>3, <1>5, <2>1, <2>2, <2>3, <3>1
    <3> QED
      BY <3>1, <3>2, <3>3
  <2>4. CASE ~(i < j)
    <3>1. w[i] = q[i + 1] /\ i + 1 \in 1 .. n /\ i + 1 # j
      BY <1>2, <1>3, <2>4
    <3>2. r.next[q[i + 1]] = IF i = n - 1 THEN NULL ELSE w[i + 1]
      BY <1>2, <1>3, <1>5, <2>1, <2>2, <2>4, <3>1
    <3>3. r.prev[q[i + 1]] = IF i = 1 THEN NULL ELSE w[i - 1]
      BY <1>2, <1>3, <1>5, <2>1, <2>2, <2>4, <3>1
    <3> QED
      BY <3>1, <3>2, <3>3
  <2> QED
    BY <2>3, <2>4
<1>13. IsChain(r, l, n - 1, w)
  BY <1>8, <1>9, <1>11, <1>12 DEF IsChain
<1> QED
  BY <1>3, <1>13 DEF w

LEMMA RemoveChains ==
  ASSUME NEW s \in KernelType, NEW l \in List, NEW S, Chained(s, l, S), NEW t \in S
  PROVE  Chained(ListRemove(s, l, t), l, S \ {t})
<1>1. PICK n \in Nat :
        \E q \in [1 .. n -> Tcb] : IsChain(s, l, n, q) /\ S = { q[i] : i \in 1 .. n }
  BY DEF Chained
<1>2. PICK q \in [1 .. n -> Tcb] : IsChain(s, l, n, q) /\ S = { q[i] : i \in 1 .. n }
  BY <1>1
<1>3. PICK j \in 1 .. n : t = q[j]
  BY <1>2
<1> DEFINE w == Closed(q, n, j)
<1>4. n - 1 \in Nat /\ w \in [1 .. n - 1 -> Tcb] /\ IsChain(ListRemove(s, l, t), l, n - 1, w)
  <2>1. /\ n \in Nat /\ q \in [1 .. n -> Tcb] /\ IsChain(s, l, n, q)
        /\ j \in 1 .. n /\ t = q[j]
    BY <1>2, <1>3
  <2> QED
    BY <2>1, RemoveCloses
<1>5. \A i, m \in 1 .. n : q[i] = q[m] => i = m
  BY <1>2 DEF IsChain
<1>6. \A i \in 1 .. n - 1 : i \in 1 .. n /\ i + 1 \in 1 .. n
  OBVIOUS
<1>7. S \ {t} = { w[i] : i \in 1 .. n - 1 }
  <2>1. ASSUME NEW u \in S \ {t} PROVE \E i \in 1 .. n - 1 : u = w[i]
    <3>1. PICK m \in 1 .. n : u = q[m]
      BY <1>2
    <3>2. m # j
      BY <1>3, <3>1
    <3>3. CASE m < j
      BY <1>3, <3>1, <3>3 DEF Closed
    <3>4. CASE m > j
      <4>1. m - 1 \in 1 .. n - 1 /\ w[m - 1] = q[m]
        BY <1>3, <3>4 DEF Closed
      <4> QED
        BY <3>1, <4>1
    <3> QED
      BY <1>3, <3>2, <3>3, <3>4
  <2>2. ASSUME NEW i \in 1 .. n - 1 PROVE w[i] \in S \ {t}
    BY <1>2, <1>3, <1>5, <1>6 DEF Closed
  <2> HIDE DEF w
  <2> QED
    BY <2>1, <2>2
<1> HIDE DEF w
<1> QED
  BY <1>4, <1>7 DEF Chained

\* os_ipc_wait_list_append of a task that is not the old tail is os_list_append.
LEMMA WaitAppendIsAppend ==
  ASSUME NEW s \in KernelType, NEW l \in List, NEW t \in Tcb, s.tail[l] # t
  PROVE  WaitAppend(s, l, t) = ListAppend(s, l, t)
<1> DEFINE last == s.tail[l]
           next == [s.next EXCEPT ![t] = NULL]
           linked == [s.next EXCEPT ![last] = t]
           prev == [s.prev EXCEPT ![t] = last]
           head == [s.head EXCEPT ![l] = t]
           tail == [s.tail EXCEPT ![l] = t]
           count == [s.count EXCEPT ![l] = Inc(s.count[l])]
<1>1. last \in Link /\ last # t /\ (last = NULL \/ last \in Tcb)
  BY DEF KernelType, Link
<1>2. CASE last = NULL
  <2> DEFINE r == [s EXCEPT !.next = next, !.prev = prev, !.head = head, !.tail = tail,
                            !.count = count]
           a == [s EXCEPT !.next[t] = NULL, !.prev[t] = last, !.tail[l] = t,
                          !.count[l] = Inc(s.count[l])]
           b == [s EXCEPT !.head[l] = t]
  <2>1. ListAppend(s, l, t) = r
    <3>1. a = [s EXCEPT !.next = next, !.prev = prev, !.tail = tail, !.count = count]
      BY DEF KernelType
    <3>2. ListAppend(s, l, t) = [a EXCEPT !.head[l] = t]
      BY <1>2 DEF ListAppend
    <3>3. [a EXCEPT !.head[l] = t] = [a EXCEPT !.head = head]
      BY <3>1 DEF KernelType
    <3> HIDE DEF head, a
    <3> QED
      BY <3>1, <3>2, <3>3
  <2>2. WaitAppend(s, l, t) = r
    <3>1. b = [s EXCEPT !.head = head]
      BY DEF KernelType
    <3> HIDE DEF head
    <3>2. WaitAppend(s, l, t) = [b EXCEPT !.prev[t] = last, !.next[t] = NULL, !.tail[l] = t,
                                          !.count[l] = Inc(@)]
      BY <1>2 DEF WaitAppend
    <3> HIDE DEF b
    <3> QED
      BY <3>1, <3>2 DEF KernelType
  <2> QED
    BY <2>1, <2>2
<1>3. CASE last # NULL
  <2> DEFINE q == [next EXCEPT ![last] = t]
             r == [s EXCEPT !.next = q, !.prev = prev, !.tail = tail, !.count = count]
             a == [s EXCEPT !.next[t] = NULL, !.prev[t] = last, !.tail[l] = t,
                            !.count[l] = Inc(s.count[l])]
             b == [s EXCEPT !.next[last] = t]
  <2>1. ListAppend(s, l, t) = r
    <3>1. a = [s EXCEPT !.next = next, !.prev = prev, !.tail = tail, !.count = count]
      BY DEF KernelType
    <3>2. ListAppend(s, l, t) = [a EXCEPT !.next[last] = t]
      BY <1>3 DEF ListAppend
    <3> HIDE DEF a, next, prev, tail, count
    <3> QED
      BY <3>1, <3>2 DEF KernelType
  <2>2. [linked EXCEPT ![t] = NULL] = q
    BY <1>1, <1>3 DEF KernelType
  <2>3. WaitAppend(s, l, t) = [s EXCEPT !.next = [linked EXCEPT ![t] = NULL], !.prev = prev,
                                        !.tail = tail, !.count = count]
    <3>1. b = [s EXCEPT !.next = linked]
      BY DEF KernelType
    <3> HIDE DEF linked
    <3>2. WaitAppend(s, l, t) = [b EXCEPT !.prev[t] = last, !.next[t] = NULL, !.tail[l] = t,
                                          !.count[l] = Inc(@)]
      BY <1>3 DEF WaitAppend
    <3> HIDE DEF b
    <3> QED
      BY <3>1, <3>2 DEF KernelType
  <2> QED
    BY <2>1, <2>2, <2>3
<1> QED
  BY <1>2, <1>3

\* os_ipc_wait_list_pop_head of a head without predecessor is os_list_remove.
LEMMA PopIsRemove ==
  ASSUME NEW s \in KernelType, NEW l \in List, s.prev[s.head[l]] = NULL
  PROVE  ListPopHead(s, l) = ListRemove(s, l, s.head[l])
  BY DEF ListPopHead, ListRemove, KernelType

-----------------------------------------------------------------------------
(* What a reader of a list meets.                                          *)

\* The walk along a list meets its tasks in their order, and NULL from then on.
LEMMA WalkMeetsTheChain ==
  ASSUME NEW s \in KernelType, NEW l \in List, NEW n \in Nat, NEW q \in [1 .. n -> Tcb],
         IsChain(s, l, n, q), NEW m \in Nat
  PROVE  Walk(s, l, m) = [i \in 1 .. m |-> IF i <= n THEN q[i] ELSE NULL]
<1> DEFINE w == [i \in 1 .. m |-> IF i <= n THEN q[i] ELSE NULL]
           body(f) == [i \in 1 .. m |->
                        IF i = 1 THEN s.head[l]
                        ELSE LET before == f[i - 1]
                             IN IF before = NULL THEN NULL ELSE s.next[before]]
           Met(f, i) == IF i = 1 THEN s.head[l]
                        ELSE IF f[i - 1] = NULL THEN NULL ELSE s.next[f[i - 1]]
<1>1. ASSUME NEW i \in 1 .. m PROVE w[i] = Met(w, i)
  <2>1. \A j \in 1 .. n : q[j] # NULL /\ s.next[q[j]] = IF j = n THEN NULL ELSE q[j + 1]
    BY ListsNameTasks DEF IsChain
  <2>2. CASE i = 1
    BY <2>2 DEF IsChain
  <2>3. CASE i # 1
    <3>1. i - 1 \in 1 .. m /\ w[i - 1] = IF i - 1 <= n THEN q[i - 1] ELSE NULL
      BY <2>3
    <3> QED
      BY <2>1, <2>3, <3>1
  <2> QED
    BY <2>2, <2>3
<1>2. w = body(w)
  <2>1. \A f, i : body(f) = [j \in 1 .. m |-> Met(f, j)]
    OBVIOUS
  <2>2. w = [j \in 1 .. m |-> w[j]]
    OBVIOUS
  <2> HIDE DEF w, body, Met
  <2> QED
    BY <1>1, <2>1, <2>2
<1>3. ASSUME NEW f, f = body(f) PROVE f = w
  <2> DEFINE Bad == { i \in 1 .. m : f[i] # w[i] }
  <2>1. f = [i \in 1 .. m |-> Met(f, i)]
    BY <1>3
  <2>2. \A i \in 1 .. m : f[i] = Met(f, i)
    BY <2>1
  <2>3. ASSUME Bad # {} PROVE FALSE
    <3>1. Bad \in SUBSET Nat
      OBVIOUS
    <3>2. PICK i \in Bad : \A j \in Bad : i <= j
      <4> HIDE DEF Bad
      <4> QED
        BY <2>3, <3>1, LeastNatural
    <3>3. i \in 1 .. m /\ f[i] # w[i]
      OBVIOUS
    <3>4. f[i] = Met(f, i) /\ w[i] = Met(w, i)
      BY <1>1, <2>2, <3>3
    <3>5. CASE i = 1
      BY <3>3, <3>4, <3>5
    <3>6. CASE i # 1
      <4>1. i - 1 \in 1 .. m /\ i - 1 \notin Bad
        BY <3>2, <3>3, <3>6
      <4>2. f[i - 1] = w[i - 1]
        BY <4>1
      <4> HIDE DEF w
      <4> QED
        BY <3>3, <3>4, <3>6, <4>2
    <3> QED
      BY <3>5, <3>6
  <2>4. \A i \in 1 .. m : f[i] = w[i]
    BY <2>3
  <2>5. w = [i \in 1 .. m |-> w[i]] /\ f = [i \in 1 .. m |-> f[i]]
    BY <2>1
  <2> HIDE DEF w
  <2> QED
    BY <2>4, <2>5
<1>4. Walk(s, l, m) = CHOOSE f : f = body(f)
  BY DEF Walk
<1> HIDE DEF w, body
<1> DEFINE c == CHOOSE f : f = body(f)
<1>5. c = body(c)
  BY <1>2
<1> HIDE DEF c
<1>6. c = w
  BY <1>3, <1>5
<1> QED
  BY <1>4, <1>6 DEF c, w

\* Members tells the tasks of a list.
LEMMA MembersTell ==
  ASSUME NEW s \in KernelType, NEW l \in List, NEW S, Chained(s, l, S)
  PROVE  Members(s, l, Cardinality(Tcb)) = S
<1>1. PICK n \in Nat :
        \E q \in [1 .. n -> Tcb] : IsChain(s, l, n, q) /\ S = { q[i] : i \in 1 .. n }
  BY DEF Chained
<1>2. PICK q \in [1 .. n -> Tcb] : IsChain(s, l, n, q) /\ S = { q[i] : i \in 1 .. n }
  BY <1>1
<1>3. n <= Cardinality(Tcb) /\ Cardinality(Tcb) \in Nat
  BY <1>2, ChainBound DEF IsChain
<1> DEFINE m == Cardinality(Tcb)
           w == Walk(s, l, m)
<1>4. w = [i \in 1 .. m |-> IF i <= n THEN q[i] ELSE NULL]
  BY <1>2, <1>3, WalkMeetsTheChain
<1>5. Members(s, l, m) = { w[i] : i \in 1 .. m } \ {NULL}
  BY DEF Members
<1> HIDE DEF m, w
<1>6. m \in Nat /\ n <= m
  BY <1>3 DEF m
<1>7. \A i \in 1 .. n : i \in 1 .. m /\ w[i] = q[i] /\ q[i] # NULL
  BY <1>4, <1>6, ListsNameTasks
<1>8. \A i \in 1 .. m : i \in 1 .. n \/ w[i] = NULL
  BY <1>4, <1>6
<1>9. { w[i] : i \in 1 .. m } \ {NULL} = S
  BY <1>2, <1>7, <1>8
<1> QED
  BY <1>5, <1>9 DEF m

\* A list that holds a set of tasks is well formed.
LEMMA ChainWellFormed ==
  ASSUME NEW s \in KernelType, NEW l \in List, NEW S, Chained(s, l, S)
  PROVE  WellFormed(s, l, Cardinality(Tcb))
<1>1. PICK n \in Nat :
        \E q \in [1 .. n -> Tcb] : IsChain(s, l, n, q) /\ S = { q[i] : i \in 1 .. n }
  BY DEF Chained
<1>2. PICK q \in [1 .. n -> Tcb] : IsChain(s, l, n, q)
  BY <1>1
<1> DEFINE m == Cardinality(Tcb)
           w == Walk(s, l, m + 1)
<1>3. n <= m /\ m \in Nat
  BY <1>2, ChainBound DEF IsChain
<1> HIDE DEF m
<1>4. w = [i \in 1 .. m + 1 |-> IF i <= n THEN q[i] ELSE NULL]
  <2>1. m + 1 \in Nat
    BY <1>3
  <2> QED
    BY <1>2, <2>1, WalkMeetsTheChain
<1> HIDE DEF w
<1>5. s.count[l] = n
  BY <1>2 DEF IsChain
<1>6. \A i \in 1 .. n : i \in 1 .. m + 1 /\ w[i] = q[i] /\ q[i] # NULL
  BY <1>3, <1>4, ListsNameTasks
<1>7. \A i \in 1 .. m + 1 : (w[i] # NULL) <=> (i <= n)
  BY <1>3, <1>4, <1>6
<1>8. s.tail[l] = IF n = 0 THEN NULL ELSE w[n]
  BY <1>2, <1>6 DEF IsChain
<1>9. \A i \in 1 .. n : s.prev[w[i]] = IF i = 1 THEN NULL ELSE w[i - 1]
  BY <1>2, <1>6 DEF IsChain
<1> QED
  BY <1>3, <1>5, <1>7, <1>8, <1>9 DEF WellFormed, w, m

-----------------------------------------------------------------------------
(* Lists that agree with the states of the tasks.                          *)

\* The tasks that belong on list l, task x excepted.
On(s, l, x) ==
  { u \in Task \ {x} : IF l \in Prio THEN s.state[u] = "READY" /\ s.prio[u] = l
                                     ELSE s.state[u] = "BLOCKED" /\ s.wait[u] = l }

\* The lists and the bitmap hold what belongs there, and x is on none of them: it
\* has been taken off, or is about to be put on.
LinksAgree(s, x) ==
  /\ \A l \in List : Chained(s, l, On(s, l, x))
  /\ s.bitmap = { p \in Prio : On(s, p, x) # {} }

\* A task belongs on one list at most.
LEMMA OnOneList ==
  ASSUME NEW s, NEW x, NEW l \in List, NEW m \in List, l # m
  PROVE  On(s, l, x) \cap On(s, m, x) = {}
  BY ListAssumption DEF On, List

\* A task that is on no list is appended to one.
LEMMA AppendAgrees ==
  ASSUME NEW s \in KernelType, NEW t \in Task, LinksAgree(s, t), NEW l \in List
  PROVE  \A m \in List : Chained(ListAppend(s, l, t), m,
                                 IF m = l THEN On(s, m, t) \cup {t} ELSE On(s, m, t))
<1> DEFINE r == ListAppend(s, l, t)
           last == s.tail[l]
<1>1. r = ListAppend(s, l, t) /\ last = s.tail[l] /\ t \in Tcb
  BY ListsNameTasks
<1>2. \A m \in List : Chained(s, m, On(s, m, t)) /\ t \notin On(s, m, t)
  BY DEF LinksAgree, On
<1>3. Chained(r, l, On(s, l, t) \cup {t})
  BY <1>1, <1>2, AppendChains
<1> HIDE DEF r, last
<1>4. /\ \A u \in Tcb :
           /\ r.next[u] = IF u = last THEN t ELSE IF u = t THEN NULL ELSE s.next[u]
           /\ r.prev[u] = IF u = t THEN last ELSE s.prev[u]
      /\ \A m \in List : m # l =>
           r.head[m] = s.head[m] /\ r.tail[m] = s.tail[m] /\ r.count[m] = s.count[m]
  BY <1>1, AppendFields
<1>5. ASSUME NEW m \in List, m # l PROVE Chained(r, m, On(s, m, t))
  <2>1. last \in On(s, l, t) \cup {NULL}
    BY <1>1, <1>2, ChainEnds
  <2>2. \A u \in On(s, m, t) : u \in Tcb /\ u # t /\ u # last
    BY <1>2, <1>5, <2>1, OnOneList, ChainEnds, ListsNameTasks
  <2>3. \A u \in On(s, m, t) : r.next[u] = s.next[u] /\ r.prev[u] = s.prev[u]
    BY <1>4, <2>2
  <2> QED
    BY <1>2, <1>4, <1>5, <2>3, ChainStays
<1>6. \A m \in List : Chained(r, m, IF m = l THEN On(s, m, t) \cup {t} ELSE On(s, m, t))
  BY <1>3, <1>5
<1> QED
  BY <1>6 DEF r

\* A task is taken off the list it belongs on.
LEMMA RemoveAgrees ==
  ASSUME NEW s \in KernelType, LinksAgree(s, NULL), NEW l \in List, NEW t \in On(s, l, NULL)
  PROVE  \A m \in List : Chained(ListRemove(s, l, t), m, On(s, m, NULL) \ {t})
<1> DEFINE r == ListRemove(s, l, t)
           p == s.prev[t]
           n == s.next[t]
<1>1. r = ListRemove(s, l, t) /\ p = s.prev[t] /\ n = s.next[t] /\ t \in Tcb
  BY ListsNameTasks DEF On
<1>2. \A m \in List : Chained(s, m, On(s, m, NULL))
  BY DEF LinksAgree
<1>3. Chained(r, l, On(s, l, NULL) \ {t})
  BY <1>1, <1>2, RemoveChains
<1> HIDE DEF r, p, n
<1>4. /\ \A u \in Tcb :
           /\ r.next[u] = IF u = t THEN NULL ELSE IF u = p THEN n ELSE s.next[u]
           /\ r.prev[u] = IF u = t THEN NULL ELSE IF u = n THEN p ELSE s.prev[u]
      /\ \A m \in List : m # l =>
           r.head[m] = s.head[m] /\ r.tail[m] = s.tail[m] /\ r.count[m] = s.count[m]
  BY <1>1, RemoveFields
<1>5. ASSUME NEW m \in List, m # l PROVE Chained(r, m, On(s, m, NULL) \ {t})
  <2>1. n \in On(s, l, NULL) \cup {NULL} /\ p \in On(s, l, NULL) \cup {NULL}
    BY <1>1, <1>2, ChainNeighbours
  <2>2. \A u \in On(s, m, NULL) : u \in Tcb /\ u # t /\ u # n /\ u # p
    BY <1>2, <1>5, <2>1, OnOneList, ChainEnds, ListsNameTasks
  <2>3. \A u \in On(s, m, NULL) : r.next[u] = s.next[u] /\ r.prev[u] = s.prev[u]
    BY <1>4, <2>2
  <2>4. On(s, m, NULL) \ {t} = On(s, m, NULL)
    BY <2>2
  <2> QED
    <3>1. Chained(s, m, On(s, m, NULL))
      BY <1>2, <1>5
    <3>2. r.head[m] = s.head[m] /\ r.tail[m] = s.tail[m] /\ r.count[m] = s.count[m]
      BY <1>4, <1>5
    <3> QED
      BY <2>3, <2>4, <3>1, <3>2, ChainStays
<1>6. \A m \in List : Chained(r, m, On(s, m, NULL) \ {t})
  BY <1>3, <1>5
<1> QED
  BY <1>6 DEF r

\* A write to the links, state, priority or wait list of a task that is on no list.
LEMMA LinksStay ==
  ASSUME NEW s, NEW r, NEW x, LinksAgree(s, x),
         \A u \in Task \ {x} : /\ r.next[u] = s.next[u] /\ r.prev[u] = s.prev[u]
                               /\ r.state[u] = s.state[u] /\ r.prio[u] = s.prio[u]
                               /\ r.wait[u] = s.wait[u],
         \A l \in List : r.head[l] = s.head[l] /\ r.tail[l] = s.tail[l] /\ r.count[l] = s.count[l],
         r.bitmap = s.bitmap
  PROVE  LinksAgree(r, x)
<1>1. \A l : On(r, l, x) = On(s, l, x)
  BY DEF On
<1>2. ASSUME NEW l \in List PROVE Chained(r, l, On(r, l, x))
  <2>1. Chained(s, l, On(s, l, x)) /\ On(s, l, x) \subseteq Task \ {x}
    BY DEF LinksAgree, On
  <2>2. Chained(r, l, On(s, l, x))
    BY <2>1, ChainStays
  <2> QED
    BY <1>1, <2>2
<1> QED
  BY <1>1, <1>2 DEF LinksAgree

\* A task that belongs on no list makes no difference.
LEMMA OffTheLists ==
  ASSUME NEW s, NEW t, t \in Task => s.state[t] # "READY" /\ (s.state[t] = "BLOCKED" => s.wait[t] = NULL)
  PROVE  LinksAgree(s, NULL) <=> LinksAgree(s, t)
<1>1. \A l \in List : On(s, l, NULL) = On(s, l, t)
  BY SchedAssumption, ListsNameTasks DEF On
<1>2. Prio \subseteq List
  BY ListsNameTasks
<1> QED
  BY <1>1, <1>2 DEF LinksAgree

\* task_ready_add: what it does to each field.
LEMMA ReadyAddFields ==
  ASSUME NEW s \in KernelType, NEW t \in Tcb, NEW r, r = ReadyAdd(s, t),
         NEW p, p = s.prio[t], NEW a, a = ListAppend(s, p, t)
  PROVE  /\ p \in Prio /\ p \in List
         /\ r \in KernelType /\ SameData(r, s) /\ r.state = [s.state EXCEPT ![t] = "READY"]
         /\ a \in KernelType /\ SameRest(a, s)
         /\ SameLinks(r, a) /\ r.bitmap = s.bitmap \cup {p}
<1> DEFINE b == [a EXCEPT !.bitmap = a.bitmap \cup {p}]
<1>1. p \in Prio /\ p \in List
  BY ListsNameTasks DEF KernelType
<1>2. r = [b EXCEPT !.state[t] = "READY"]
  BY DEF ReadyAdd, KernelType
<1>3. a \in KernelType /\ SameRest(a, s) /\ a.bitmap = s.bitmap
  BY <1>1, AppendFields
<1>4. b \in KernelType /\ SameRest(b, a) /\ b.bitmap = a.bitmap \cup {p}
      /\ b.next = a.next /\ b.prev = a.prev /\ b.head = a.head /\ b.tail = a.tail
      /\ b.count = a.count
  <2>1. a.bitmap \cup {p} \in SUBSET Prio
    BY <1>1, <1>3 DEF KernelType
  <2> QED
    BY <1>3, <2>1, PutBitmap
<1> HIDE DEF b
<1>5. r \in KernelType /\ SameData(r, b) /\ r.state = [b.state EXCEPT ![t] = "READY"]
      /\ r.next = b.next /\ r.prev = b.prev /\ r.head = b.head /\ r.tail = b.tail
      /\ r.count = b.count /\ r.bitmap = b.bitmap
  <2>1. "READY" \in States
    BY DEF States
  <2> QED
    BY <1>2, <1>4, <2>1, PutState
<1>6. SameData(r, s) /\ r.state = [s.state EXCEPT ![t] = "READY"]
  <2>1. SameData(a, s) /\ a.state = s.state /\ SameData(b, a) /\ b.state = a.state
    BY <1>3, <1>4 DEF SameRest
  <2>2. SameData(r, b) /\ r.state = [b.state EXCEPT ![t] = "READY"]
    BY <1>5
  <2>3. SameData(r, s)
    BY <2>1, <2>2 DEF SameData
  <2> QED
    BY <2>1, <2>2, <2>3
<1> QED
  BY <1>1, <1>3, <1>4, <1>5, <1>6 DEF SameLinks

\* task_ready_add of a task that is on no list.
LEMMA ReadyAddAgrees ==
  ASSUME NEW s \in KernelType, NEW t \in Task, LinksAgree(s, t), NEW r, r = ReadyAdd(s, t)
  PROVE  /\ r \in KernelType /\ LinksAgree(r, NULL) /\ SameData(r, s)
         /\ r.state = [s.state EXCEPT ![t] = "READY"]
         /\ On(s, s.prio[t], t) # {} => r.head[s.prio[t]] # t
<1> DEFINE p == s.prio[t]
           a == ListAppend(s, p, t)
<1>1. p = s.prio[t] /\ a = ListAppend(s, p, t) /\ t \in Tcb
  BY ListsNameTasks
<1> HIDE DEF p, a
<1>2. /\ p \in Prio /\ p \in List
      /\ r \in KernelType /\ SameData(r, s) /\ r.state = [s.state EXCEPT ![t] = "READY"]
      /\ a \in KernelType /\ SameRest(a, s)
      /\ SameLinks(r, a) /\ r.bitmap = s.bitmap \cup {p}
  BY <1>1, ReadyAddFields
<1>3. \A m \in List : Chained(a, m, IF m = p THEN On(s, m, t) \cup {t} ELSE On(s, m, t))
  BY <1>1, <1>2, AppendAgrees
<1>4. \A m \in List : On(r, m, NULL) = IF m = p THEN On(s, m, t) \cup {t} ELSE On(s, m, t)
  <2>1. s.state \in [Tcb -> States] /\ Task \subseteq Tcb /\ NULL \notin Task
    BY ListsNameTasks DEF KernelType
  <2>2. \A u \in Task : r.state[u] = IF u = t THEN "READY" ELSE s.state[u]
    BY <1>2, <2>1
  <2>3. r.prio = s.prio /\ r.wait = s.wait
    BY <1>2 DEF SameData
  <2> QED
    BY <1>1, <1>2, <2>1, <2>2, <2>3 DEF On
<1>5. ASSUME NEW m \in List PROVE Chained(r, m, On(r, m, NULL))
  <2>1. Chained(a, m, On(r, m, NULL))
    BY <1>3, <1>4
  <2> QED
    BY <1>2, <2>1, ChainStays DEF SameLinks
<1>6. r.bitmap = { q \in Prio : On(r, q, NULL) # {} }
  <2>1. r.bitmap = { q \in Prio : On(s, q, t) # {} } \cup {p}
    BY <1>2 DEF LinksAgree
  <2> QED
    BY <1>2, <1>4, <2>1, ListsNameTasks
<1>7. ASSUME On(s, p, t) # {} PROVE r.head[p] # t
  <2>1. Chained(s, p, On(s, p, t))
    BY <1>2 DEF LinksAgree
  <2>2. s.head[p] \in On(s, p, t) /\ s.tail[p] # NULL
    BY <1>7, <2>1, ChainEnds
  <2>3. a.head[p] = s.head[p]
    BY <1>1, <1>2, <2>2, AppendFields
  <2>4. t \notin On(s, p, t)
    BY DEF On
  <2> QED
    BY <1>2, <2>2, <2>3, <2>4 DEF SameLinks
<1> QED
  BY <1>1, <1>2, <1>5, <1>6, <1>7 DEF LinksAgree

\* task_ready_add does the same to the same lists.
LEMMA ReadyAddTwice ==
  ASSUME NEW s \in KernelType, NEW r \in KernelType, NEW t \in Tcb, s.prio = r.prio,
         SameLists(s, r), NEW a, a = ReadyAdd(s, t), NEW b, b = ReadyAdd(r, t)
  PROVE  /\ \A u \in Tcb : a.next[u] = b.next[u] /\ a.prev[u] = b.prev[u]
         /\ \A l \in List : a.head[l] = b.head[l] /\ a.tail[l] = b.tail[l] /\ a.count[l] = b.count[l]
         /\ a.bitmap = b.bitmap
<1> DEFINE p == s.prio[t]
           c == ListAppend(s, p, t)
           d == ListAppend(r, p, t)
<1>1. /\ p \in List /\ p = s.prio[t] /\ p = r.prio[t]
      /\ c = ListAppend(s, p, t) /\ d = ListAppend(r, p, t)
  BY ListsNameTasks DEF KernelType
<1> HIDE DEF p, c, d
<1>2. /\ \A u \in Tcb : c.next[u] = d.next[u] /\ c.prev[u] = d.prev[u]
      /\ \A l \in List : c.head[l] = d.head[l] /\ c.tail[l] = d.tail[l] /\ c.count[l] = d.count[l]
  <2>1. /\ s.tail[p] = r.tail[p]
        /\ s.next = r.next /\ s.prev = r.prev /\ s.head = r.head /\ s.tail = r.tail
        /\ s.count = r.count
    BY DEF SameLists, SameLinks
  <2>2. /\ \A u \in Tcb :
             /\ c.next[u] = IF u = s.tail[p] THEN t ELSE IF u = t THEN NULL ELSE s.next[u]
             /\ c.prev[u] = IF u = t THEN s.tail[p] ELSE s.prev[u]
        /\ \A m \in List :
             /\ c.head[m] = IF m = p /\ s.tail[p] = NULL THEN t ELSE s.head[m]
             /\ c.tail[m] = IF m = p THEN t ELSE s.tail[m]
             /\ c.count[m] = IF m = p THEN Inc(s.count[m]) ELSE s.count[m]
    BY <1>1, AppendFields
  <2>3. /\ \A u \in Tcb :
             /\ d.next[u] = IF u = r.tail[p] THEN t ELSE IF u = t THEN NULL ELSE r.next[u]
             /\ d.prev[u] = IF u = t THEN r.tail[p] ELSE r.prev[u]
        /\ \A m \in List :
             /\ d.head[m] = IF m = p /\ r.tail[p] = NULL THEN t ELSE r.head[m]
             /\ d.tail[m] = IF m = p THEN t ELSE r.tail[m]
             /\ d.count[m] = IF m = p THEN Inc(r.count[m]) ELSE r.count[m]
    BY <1>1, AppendFields
  <2> QED
    BY <2>1, <2>2, <2>3
<1>3. SameLinks(a, c) /\ a.bitmap = s.bitmap \cup {p}
  <2>1. SameLinks(a, c)
    BY <1>1, ReadyAddFields
  <2>2. c \in KernelType /\ SameRest(c, s) /\ c.bitmap = s.bitmap
    BY <1>1, AppendFields
  <2>3. a = [c EXCEPT !.bitmap = @ \cup {p}, !.state[t] = "READY"]
    BY <1>1 DEF ReadyAdd
  <2>4. a.bitmap = s.bitmap \cup {p}
    BY <2>2, <2>3 DEF KernelType
  <2> QED
    BY <2>1, <2>4
<1>4. SameLinks(b, d) /\ b.bitmap = r.bitmap \cup {p}
  <2>1. SameLinks(b, d)
    BY <1>1, ReadyAddFields
  <2>2. d \in KernelType /\ SameRest(d, r) /\ d.bitmap = r.bitmap
    BY <1>1, AppendFields
  <2>3. b = [d EXCEPT !.bitmap = @ \cup {p}, !.state[t] = "READY"]
    BY <1>1 DEF ReadyAdd
  <2>4. b.bitmap = r.bitmap \cup {p}
    BY <2>2, <2>3 DEF KernelType
  <2> QED
    BY <2>1, <2>4
<1> QED
  BY <1>2, <1>3, <1>4 DEF SameLinks, SameLists

\* task_ready_remove: what it does to each field.
LEMMA ReadyRemoveFields ==
  ASSUME NEW s \in KernelType, NEW t \in Tcb, NEW r, r = ReadyRemove(s, t),
         NEW p, p = s.prio[t], NEW a, a = ListRemove(s, p, t)
  PROVE  /\ p \in Prio /\ p \in List
         /\ r \in KernelType /\ SameRest(r, s)
         /\ a \in KernelType /\ SameRest(a, s)
         /\ SameLinks(r, a)
         /\ r.bitmap = IF a.count[p] = 0 THEN s.bitmap \ {p} ELSE s.bitmap
<1> DEFINE bits == IF a.count[p] = 0 THEN a.bitmap \ {p} ELSE a.bitmap
<1>1. p \in Prio /\ p \in List
  BY ListsNameTasks DEF KernelType
<1>2. r = [a EXCEPT !.bitmap = bits] \/ (r = a /\ bits = a.bitmap)
  BY DEF ReadyRemove
<1>3. a \in KernelType /\ SameRest(a, s) /\ a.bitmap = s.bitmap
  BY <1>1, RemoveFields
<1>4. bits \in SUBSET Prio
  BY <1>3 DEF KernelType
<1>5. r \in KernelType /\ SameRest(r, a) /\ r.bitmap = bits
      /\ r.next = a.next /\ r.prev = a.prev /\ r.head = a.head /\ r.tail = a.tail
      /\ r.count = a.count
  <2> HIDE DEF bits
  <2>1. CASE r = [a EXCEPT !.bitmap = bits]
    BY <1>3, <1>4, <2>1, PutBitmap
  <2>2. CASE r = a /\ bits = a.bitmap
    BY <1>3, <2>2 DEF SameRest, SameData
  <2> QED
    BY <1>2, <2>1, <2>2
<1>6. SameRest(r, s)
  BY <1>3, <1>5 DEF SameRest, SameData
<1> QED
  BY <1>1, <1>3, <1>5, <1>6 DEF SameLinks

\* task_ready_remove of a READY task.
LEMMA ReadyRemoveAgrees ==
  ASSUME NEW s \in KernelType, LinksAgree(s, NULL), NEW t \in Task, s.state[t] = "READY",
         NEW r, r = ReadyRemove(s, t)
  PROVE  r \in KernelType /\ LinksAgree(r, t) /\ SameRest(r, s)
<1> DEFINE p == s.prio[t]
           a == ListRemove(s, p, t)
<1>1. p = s.prio[t] /\ a = ListRemove(s, p, t) /\ t \in Tcb
  BY ListsNameTasks
<1> HIDE DEF p, a
<1>2. /\ p \in Prio /\ p \in List
      /\ r \in KernelType /\ SameRest(r, s)
      /\ a \in KernelType /\ SameRest(a, s)
      /\ SameLinks(r, a)
      /\ r.bitmap = IF a.count[p] = 0 THEN s.bitmap \ {p} ELSE s.bitmap
  BY <1>1, ReadyRemoveFields
<1>3. t \in On(s, p, NULL)
  BY <1>1, <1>2, ListsNameTasks DEF On
<1>4. \A m \in List : Chained(a, m, On(s, m, NULL) \ {t})
  BY <1>1, <1>2, <1>3, RemoveAgrees
<1>5. \A m : On(r, m, t) = On(s, m, NULL) \ {t}
  BY <1>2, ListsNameTasks DEF On, SameRest, SameData
<1>6. ASSUME NEW m \in List PROVE Chained(r, m, On(r, m, t))
  <2>1. Chained(a, m, On(r, m, t))
    BY <1>4, <1>5
  <2> QED
    BY <1>2, <2>1, ChainStays DEF SameLinks
<1>7. r.bitmap = { q \in Prio : On(r, q, t) # {} }
  <2>1. a.count[p] = 0 <=> On(r, p, t) = {}
    BY <1>2, <1>4, <1>5, ChainEnds
  <2>2. s.bitmap = { q \in Prio : On(s, q, NULL) # {} }
    BY DEF LinksAgree
  <2>3. \A q \in Prio : q # p => On(r, q, t) = On(s, q, NULL)
    BY <1>1, <1>5 DEF On
  <2> QED
    BY <1>2, <1>3, <1>5, <2>1, <2>2, <2>3
<1> QED
  BY <1>2, <1>6, <1>7 DEF LinksAgree

\* os_ipc_wait_list_remove of a waiting task.
LEMMA WaitRemoveAgrees ==
  ASSUME NEW s \in KernelType, LinksAgree(s, NULL), NEW t \in Task, s.state[t] = "BLOCKED",
         s.wait[t] # NULL, NEW r, r = ListRemove(s, s.wait[t], t)
  PROVE  r \in KernelType /\ LinksAgree(r, t) /\ SameRest(r, s)
<1> DEFINE w == s.wait[t]
<1>1. w \in WaitList /\ w \in List /\ w \notin Prio /\ t \in Tcb
  BY ListsNameTasks, ListAssumption DEF KernelType
<1>2. t \in On(s, w, NULL)
  BY <1>1, ListsNameTasks DEF On
<1>3. r \in KernelType /\ SameRest(r, s) /\ r.bitmap = s.bitmap
  BY <1>1, RemoveFields
<1>4. \A m \in List : Chained(r, m, On(s, m, NULL) \ {t})
  BY <1>1, <1>2, RemoveAgrees
<1>5. \A m : On(r, m, t) = On(s, m, NULL) \ {t}
  BY <1>3, ListsNameTasks DEF On, SameRest, SameData
<1>6. \A q \in Prio : On(r, q, t) = On(s, q, NULL)
  BY <1>5 DEF On
<1> QED
  BY <1>3, <1>4, <1>5, <1>6 DEF LinksAgree

\* os_ipc_wait_list_append of a task that has just become BLOCKED.
LEMMA WaitAppendAgrees ==
  ASSUME NEW s \in KernelType, NEW t \in Task, LinksAgree(s, t), s.state[t] = "BLOCKED",
         s.wait[t] \in WaitList, NEW r, r = WaitAppend(s, s.wait[t], t)
  PROVE  r \in KernelType /\ LinksAgree(r, NULL) /\ SameRest(r, s)
<1> DEFINE w == s.wait[t]
<1>1. w \in List /\ w \notin Prio /\ t \in Tcb
  BY ListsNameTasks, ListAssumption
<1>2. s.tail[w] # t
  <2>1. Chained(s, w, On(s, w, t)) /\ t \notin On(s, w, t)
    BY <1>1 DEF LinksAgree, On
  <2> QED
    BY <1>1, <2>1, ChainEnds, ListsNameTasks
<1>3. r = ListAppend(s, w, t)
  BY <1>1, <1>2, WaitAppendIsAppend
<1>4. r \in KernelType /\ SameRest(r, s) /\ r.bitmap = s.bitmap
  BY <1>1, <1>3, AppendFields
<1>5. \A m \in List : Chained(r, m, IF m = w THEN On(s, m, t) \cup {t} ELSE On(s, m, t))
  BY <1>1, <1>3, AppendAgrees
<1>6. \A m \in List : On(r, m, NULL) = IF m = w THEN On(s, m, t) \cup {t} ELSE On(s, m, t)
  <2>1. r.state = s.state /\ r.prio = s.prio /\ r.wait = s.wait
    BY <1>4 DEF SameRest, SameData
  <2> QED
    BY <1>1, <2>1, ListsNameTasks DEF On
<1>7. \A q \in Prio : On(r, q, NULL) = On(s, q, t) /\ q \in List
  BY <1>1, <1>6, ListsNameTasks
<1> QED
  BY <1>4, <1>5, <1>6, <1>7 DEF LinksAgree

\* sched_highest_ready finds the head of the list of a READY task, or the idle task.
LEMMA HighestIsListed ==
  ASSUME NEW s \in KernelType, LinksAgree(s, NULL), NEW t, t = Highest(s), t # Idle
  PROVE  t \in Task /\ s.state[t] = "READY" /\ s.head[s.prio[t]] = t
<1>1. Candidates(s) # {}
  BY DEF Highest
<1>2. Candidates(s) \subseteq Prio /\ Candidates(s) \subseteq Nat
  BY SchedAssumption DEF Candidates, KernelType, Prio
<1>3. \E p \in Candidates(s) : \A q \in Candidates(s) : p <= q
  BY <1>1, <1>2, LeastNatural
<1>4. PICK p \in Candidates(s) : t = s.head[p]
  BY <1>1, <1>3 DEF Highest
<1>5. p \in Prio /\ p \in List /\ s.head[p] # NULL
  BY <1>2, <1>4, ListsNameTasks DEF Candidates
<1>6. Chained(s, p, On(s, p, NULL))
  BY <1>5 DEF LinksAgree
<1>7. t \in On(s, p, NULL)
  BY <1>4, <1>5, <1>6, ChainEnds
<1> QED
  BY <1>4, <1>5, <1>7 DEF On

-----------------------------------------------------------------------------
(* The tasks.                                                              *)

\* What every function of the kernel keeps, of a record of the kernel's
\* structures: SoleRunning, and who is current in which section.
Safe(s) ==
  /\ s \in KernelType
  /\ \A t \in Tcb : s.state[t] = "RUNNING" => s.cur = t
  /\ s.at \in {"boot", "start"} => s.cur = NULL
  /\ s.at \notin {"boot", "start"} => s.cur \in Tcb
  /\ s.at = "tick" => s.i >= 1

\* The fields Safe speaks about, those of the lists excepted.
SameTasks(r, s) ==
  r.cur = s.cur /\ r.at = s.at /\ r.i = s.i /\ r.running = s.running /\ r.prio = s.prio
    /\ r.table = s.table

\* The inductive invariant.
TasksInv == Safe(k) /\ pc \in [Tcb -> {"run", "call"}]

-----------------------------------------------------------------------------
(* The list operators.                                                     *)

LEMMA AppendKeeps ==
  ASSUME NEW s \in KernelType, NEW l \in List, NEW t \in Tcb
  PROVE  /\ ListAppend(s, l, t) \in KernelType
         /\ SameTasks(ListAppend(s, l, t), s) /\ ListAppend(s, l, t).state = s.state
<1> DEFINE r == ListAppend(s, l, t)
<1>1. r = ListAppend(s, l, t)
  OBVIOUS
<1> HIDE DEF r
<1>2. r \in KernelType /\ SameRest(r, s)
  BY <1>1, AppendFields
<1> QED
  BY <1>2 DEF r, SameRest, SameData, SameTasks

LEMMA RemoveKeeps ==
  ASSUME NEW s \in KernelType, NEW l \in List, NEW t \in Tcb
  PROVE  /\ ListRemove(s, l, t) \in KernelType
         /\ SameTasks(ListRemove(s, l, t), s) /\ ListRemove(s, l, t).state = s.state
<1> DEFINE r == ListRemove(s, l, t)
<1>1. r = ListRemove(s, l, t)
  OBVIOUS
<1> HIDE DEF r
<1>2. r \in KernelType /\ SameRest(r, s)
  BY <1>1, RemoveFields
<1> QED
  BY <1>2 DEF r, SameRest, SameData, SameTasks

-----------------------------------------------------------------------------
(* The ready lists.                                                        *)

LEMMA ReadyAddKeeps ==
  ASSUME NEW s \in KernelType, NEW t \in Tcb
  PROVE  /\ ReadyAdd(s, t) \in KernelType /\ SameTasks(ReadyAdd(s, t), s)
         /\ ReadyAdd(s, t).state = [s.state EXCEPT ![t] = "READY"]
<1> DEFINE r == ReadyAdd(s, t)
<1>1. r = ReadyAdd(s, t)
  OBVIOUS
<1> HIDE DEF r
<1>2. r \in KernelType /\ SameData(r, s) /\ r.state = [s.state EXCEPT ![t] = "READY"]
  BY <1>1, ReadyAddFields
<1> QED
  BY <1>2 DEF r, SameData, SameTasks

LEMMA ReadyRemoveKeeps ==
  ASSUME NEW s \in KernelType, NEW t \in Tcb
  PROVE  /\ ReadyRemove(s, t) \in KernelType /\ SameTasks(ReadyRemove(s, t), s)
         /\ ReadyRemove(s, t).state = s.state
<1> DEFINE r == ReadyRemove(s, t)
           p == s.prio[t]
           a == ListRemove(s, p, t)
<1>1. r = ReadyRemove(s, t) /\ p = s.prio[t] /\ a = ListRemove(s, p, t)
  OBVIOUS
<1> HIDE DEF r, p, a
<1>2. /\ p \in Prio /\ p \in List
      /\ r \in KernelType /\ SameRest(r, s)
      /\ a \in KernelType /\ SameRest(a, s)
      /\ SameLinks(r, a)
      /\ r.bitmap = IF a.count[p] = 0 THEN s.bitmap \ {p} ELSE s.bitmap
  BY <1>1, ReadyRemoveFields
<1> QED
  BY <1>2 DEF r, SameRest, SameData, SameTasks

\* A handler that makes a task READY, or takes it off its list, keeps Safe.
LEMMA ReadyAddSafe ==
  ASSUME NEW s, Safe(s), NEW t \in Tcb
  PROVE  Safe(ReadyAdd(s, t))
<1>1. s \in KernelType
  BY DEF Safe
<1> DEFINE r == ReadyAdd(s, t)
<1>2. s.state \in [Tcb -> States]
  BY <1>1 DEF KernelType
<1>3. r \in KernelType /\ SameTasks(r, s) /\ r.state = [s.state EXCEPT ![t] = "READY"]
  BY <1>1, ReadyAddKeeps
<1> HIDE DEF r
<1>4. \A u \in Tcb : r.state[u] = "RUNNING" => s.state[u] = "RUNNING"
  BY <1>2, <1>3
<1>5. Safe(r)
  BY <1>3, <1>4 DEF Safe, SameTasks
<1> QED
  BY <1>5 DEF r

LEMMA ReadyRemoveSafe ==
  ASSUME NEW s, Safe(s), NEW t \in Tcb
  PROVE  Safe(ReadyRemove(s, t))
  BY ReadyRemoveKeeps DEF Safe, SameTasks

\* sched_highest_ready finds a control block.
LEMMA HighestIsTask ==
  ASSUME NEW s \in KernelType
  PROVE  Highest(s) \in Tcb
<1>1. CASE Candidates(s) = {}
  BY <1>1, ListsNameTasks DEF Highest
<1>2. CASE Candidates(s) # {}
  <2>1. Candidates(s) \subseteq Prio /\ Candidates(s) \subseteq Nat
    BY SchedAssumption DEF Candidates, KernelType, Prio
  <2>2. \E p \in Candidates(s) : \A q \in Candidates(s) : p <= q
    BY <1>2, <2>1, LeastNatural
  <2>3. PICK p \in Candidates(s) : Highest(s) = s.head[p]
    BY <1>2, <2>2 DEF Highest
  <2>4. s.head[p] \in Link /\ s.head[p] # NULL
    BY <2>1, <2>3, ListsNameTasks DEF Candidates, KernelType
  <2> QED
    BY <2>3, <2>4 DEF Link
<1> QED
  BY <1>1, <1>2

\* A task that stops is no longer RUNNING.
LEMMA StateSafe ==
  ASSUME NEW s, Safe(s), NEW t \in Tcb, NEW v \in States, v # "RUNNING"
  PROVE  Safe([s EXCEPT !.state[t] = v])
  BY DEF Safe, KernelType, Sections

-----------------------------------------------------------------------------
(* Entering the scheduler.                                                 *)

\* Where control is: in a task, in the tick handler, or in os_sched.
LEMMA SectionSafe ==
  ASSUME NEW s, Safe(s), s.at \notin {"boot", "start"}, NEW v \in {"task", "sched"}
  PROVE  Safe([s EXCEPT !.at = v])
  BY DEF Safe, KernelType, Sections

LEMMA PendSafe ==
  ASSUME NEW s, Safe(s), NEW v \in BOOLEAN
  PROVE  Safe([s EXCEPT !.pend = v])
  BY DEF Safe, KernelType

LEMMA GuardFailSafe ==
  ASSUME NEW s, Safe(s), NEW t \in Tcb
  PROVE  Safe(GuardFail(s, t)) /\ GuardFail(s, t).at = s.at
<1> DEFINE r == [s EXCEPT !.state[t] = "TERMINATED"]
           q == [r EXCEPT !.next[t] = NULL, !.prev[t] = NULL]
<1>1. Safe(r)
  BY StateSafe DEF States
<1>2. r.at = s.at
  BY DEF Safe, KernelType
<1>3. GuardFail(s, t) = q
  BY DEF GuardFail, Safe, KernelType
<1> HIDE DEF r
<1>4. q \in KernelType /\ SameTasks(q, r) /\ q.state = r.state
  BY <1>1 DEF Safe, KernelType, Link, SameTasks
<1> HIDE DEF q
<1> QED
  BY <1>1, <1>2, <1>3, <1>4 DEF Safe, SameTasks

\* os_sched up to the search, called by a task or on the way out of an interrupt.
LEMMA CallSchedSafe ==
  ASSUME NEW s, Safe(s), s.at = "task"
  PROVE  Safe(CallSched(s))
<1> DEFINE idle == [s EXCEPT !.pend = FALSE]
           entered == [idle EXCEPT !.at = "sched"]
<1>1. s \in KernelType /\ s.cur \in Tcb
  BY DEF Safe
<1>2. Safe(idle)
  BY PendSafe
<1>3. idle \in KernelType /\ idle.at = "task" /\ idle.cur = s.cur
  BY <1>1 DEF KernelType
<1>4. Safe(entered) /\ entered.cur = s.cur
  <2> HIDE DEF idle
  <2>1. Safe(entered)
    BY <1>2, <1>3, SectionSafe
  <2>2. entered.cur = idle.cur
    BY <1>3 DEF KernelType
  <2> QED
    BY <1>3, <2>1, <2>2
<1>5. Safe(GuardFail(entered, s.cur))
  BY <1>1, <1>4, GuardFailSafe
<1>6. Safe([s EXCEPT !.pend = TRUE])
  BY PendSafe
<1>7. entered = [s EXCEPT !.pend = FALSE, !.at = "sched"]
  BY <1>1 DEF KernelType
<1> HIDE DEF entered
<1>8. CallSched(s) \in {s, [s EXCEPT !.pend = TRUE], GuardFail(entered, s.cur), entered}
  BY <1>7 DEF CallSched
<1> QED
  BY <1>4, <1>5, <1>6, <1>8

\* The end of a call whose critical section has made s.
LEMMA ThenSchedSafe ==
  ASSUME NEW c \in Task, NEW s, Safe(s), s.at = "task", ThenSched(c, s)
  PROVE  Safe(k')
  BY CallSchedSafe DEF ThenSched

-----------------------------------------------------------------------------
(* Start-up.                                                               *)

LEMMA InitSafe == KernelInit => TasksInv
<1> SUFFICES ASSUME KernelInit PROVE TasksInv
  OBVIOUS
<1>1. PICK build \in Builds :
       k = [ next |-> [t \in Tcb |-> NULL], prev |-> [t \in Tcb |-> NULL],
             head |-> [l \in List |-> NULL], tail |-> [l \in List |-> NULL],
             count |-> [l \in List |-> 0], bitmap |-> {},
             state |-> [t \in Tcb |-> IF t = Idle THEN "READY" ELSE "INIT"],
             prio |-> [t \in Tcb |-> IF t = Idle THEN PrioMax - 1 ELSE 0],
             base |-> [t \in Tcb |-> IF t = Idle THEN PrioMax - 1 ELSE 0],
             slice |-> [t \in Tcb |-> IF t = Idle THEN SliceTicks ELSE 0],
             wake |-> [t \in Tcb |-> 0], guard |-> [t \in Tcb |-> TRUE],
             wait |-> [t \in Tcb |-> NULL], deadline |-> [t \in Tcb |-> 0],
             result |-> [t \in Tcb |-> "EOK"], table |-> <<Idle>>, cur |-> NULL,
             pend |-> FALSE, lock |-> 0, tick |-> 0, running |-> FALSE,
             at |-> "boot", i |-> 0, build |-> build ]
  BY DEF KernelInit
<1>2. /\ 0 \in Prio /\ PrioMax - 1 \in Prio /\ 0 \in Tick /\ 0 \in 0 .. CountMod - 1
      /\ 0 \in 0 .. SliceTicks /\ SliceTicks \in 0 .. SliceTicks /\ 0 \in 0 .. LockMax
  BY SchedAssumption DEF Prio, Tick
<1>3. build \in Build /\ <<Idle>> \in Seq(Tcb) /\ NULL \in Link
  BY SchedAssumption, ListsNameTasks DEF Link
<1>4. k \in KernelType
  BY <1>1, <1>2, <1>3 DEF KernelType, States, Results, Sections
<1>5. /\ \A t \in Tcb : k.state[t] # "RUNNING"
      /\ k.at = "boot" /\ k.cur = NULL
  BY <1>1
<1>6. pc \in [Tcb -> {"run", "call"}]
  BY DEF KernelInit
<1> QED
  BY <1>4, <1>5, <1>6 DEF TasksInv, Safe

-----------------------------------------------------------------------------
(* The steps of the kernel.                                                *)

\* os_task_create: the control block is filled in and put on the ready list.
LEMMA CreatedSafe ==
  ASSUME NEW s, Safe(s), NEW t \in Task, NEW p \in Prio
  PROVE  Safe(Created(s, t, p)) /\ Created(s, t, p).at = s.at
<1> DEFINE r == [s EXCEPT !.next[t] = NULL, !.prev[t] = NULL, !.prio[t] = p]
           q == [r EXCEPT !.base[t] = p, !.slice[t] = SliceTicks, !.wait[t] = NULL]
           entries == IF Len(s.table) < TaskMax THEN Append(s.table, t) ELSE s.table
           o == [q EXCEPT !.deadline[t] = 0, !.guard[t] = TRUE, !.table = entries]
<1>1. t \in Tcb /\ SliceTicks \in 0 .. SliceTicks /\ 0 \in Tick /\ entries \in Seq(Tcb)
  BY SchedAssumption, ListsNameTasks DEF Safe, KernelType, Tick
<1>2. Created(s, t, p) = ReadyAdd(o, t)
  BY DEF Created, Safe, KernelType
<1> HIDE DEF entries
<1>3. /\ r \in KernelType /\ r.state = s.state
      /\ r.cur = s.cur /\ r.at = s.at /\ r.i = s.i
  BY <1>1 DEF Safe, KernelType, Link
<1> HIDE DEF r
<1>4. /\ q \in KernelType /\ q.state = r.state
      /\ q.cur = r.cur /\ q.at = r.at /\ q.i = r.i
  BY <1>1, <1>3 DEF KernelType
<1> HIDE DEF q
<1>5. /\ o \in KernelType /\ o.state = q.state
      /\ o.cur = q.cur /\ o.at = q.at /\ o.i = q.i
  BY <1>1, <1>4 DEF KernelType
<1> HIDE DEF o
<1>6. Safe(o) /\ o.at = s.at
  BY <1>3, <1>4, <1>5 DEF Safe
<1>7. Safe(ReadyAdd(o, t)) /\ ReadyAdd(o, t).at = s.at
  BY <1>1, <1>5, <1>6, ReadyAddSafe, ReadyAddKeeps DEF SameTasks
<1> QED
  BY <1>2, <1>7

\* The switch to another task: nobody is RUNNING when the next one becomes so.
LEMMA SwitchToSafe ==
  ASSUME NEW s, Safe(s), s.cur \in Tcb, NEW t \in Tcb
  PROVE  Safe(SwitchTo(s, t)) /\ SwitchTo(s, t).at = s.at
<1> DEFINE r == IF t = Idle THEN s ELSE ReadyRemove(s, t)
           q == IF r.state[s.cur] # "RUNNING" THEN r
                ELSE IF s.cur = Idle THEN [r EXCEPT !.state[Idle] = "READY"]
                ELSE ReadyAdd(r, s.cur)
<1>1. Safe(r) /\ r.cur = s.cur /\ r.at = s.at
  <2>1. s \in KernelType
    BY DEF Safe
  <2> QED
    BY <2>1, ReadyRemoveSafe, ReadyRemoveKeeps DEF SameTasks
<1>2. SwitchTo(s, t) = [q EXCEPT !.state[t] = "RUNNING", !.cur = t]
  BY DEF SwitchTo
<1> HIDE DEF r
<1>3. /\ q \in KernelType /\ q.at = s.at /\ q.i = r.i /\ q.cur = s.cur
      /\ \A u \in Tcb : q.state[u] # "RUNNING"
  <2>1. CASE r.state[s.cur] # "RUNNING"
    BY <1>1, <2>1 DEF Safe
  <2>2. CASE r.state[s.cur] = "RUNNING" /\ s.cur = Idle
    <3>1. q = [r EXCEPT !.state[Idle] = "READY"]
      BY <2>2
    <3> HIDE DEF q
    <3>2. r \in KernelType /\ r.state \in [Tcb -> States] /\ Idle \in Tcb
      BY <1>1, ListsNameTasks DEF Safe, KernelType
    <3>3. /\ q \in KernelType /\ q.at = r.at /\ q.i = r.i /\ q.cur = r.cur
          /\ q.state = [r.state EXCEPT ![Idle] = "READY"]
      BY <3>1, <3>2 DEF KernelType, States
    <3>4. \A u \in Tcb : q.state[u] # "RUNNING"
      BY <1>1, <2>2, <3>2, <3>3 DEF Safe
    <3> QED
      BY <1>1, <3>3, <3>4
  <2>3. CASE r.state[s.cur] = "RUNNING" /\ s.cur # Idle
    <3>1. q = ReadyAdd(r, s.cur)
      BY <2>3
    <3> HIDE DEF q
    <3>2. r \in KernelType /\ r.state \in [Tcb -> States]
      BY <1>1 DEF Safe, KernelType
    <3>3. /\ q \in KernelType /\ SameTasks(q, r)
          /\ q.state = [r.state EXCEPT ![s.cur] = "READY"]
      BY <3>1, <3>2, ReadyAddKeeps
    <3>4. \A u \in Tcb : q.state[u] # "RUNNING"
      BY <1>1, <3>2, <3>3 DEF Safe
    <3> QED
      BY <1>1, <3>3, <3>4 DEF SameTasks
  <2> QED
    BY <2>1, <2>2, <2>3
<1> HIDE DEF q
<1> DEFINE o == [q EXCEPT !.state[t] = "RUNNING", !.cur = t]
<1>4. /\ o \in KernelType /\ o.cur = t /\ o.at = q.at /\ o.i = q.i
      /\ \A u \in Tcb : o.state[u] = "RUNNING" => u = t
  BY <1>3 DEF KernelType, States, Link
<1>5. s.at \notin {"boot", "start"} /\ (s.at = "tick" => r.i >= 1)
  BY <1>1, ListsNameTasks DEF Safe
<1> HIDE DEF o
<1>6. Safe(o) /\ o.at = s.at
  BY <1>3, <1>4, <1>5 DEF Safe
<1> QED
  BY <1>2, <1>6 DEF o

\* One turn of the tick handler's scan.
LEMMA ScanSafe ==
  ASSUME NEW s, Safe(s), NEW t \in Tcb
  PROVE  Safe(ScanTask(s, t)) /\ ScanTask(s, t).at = s.at
<1>1. ASSUME NEW o, Safe(o)
      PROVE  Safe(ReadyAdd(o, t)) /\ ReadyAdd(o, t).at = o.at
  <2>1. o \in KernelType
    BY <1>1 DEF Safe
  <2>2. ReadyAdd(o, t).at = o.at
    BY <2>1, ReadyAddKeeps DEF SameTasks
  <2> QED
    BY <1>1, <2>2, ReadyAddSafe
<1>2. Safe(ReadyAdd(s, t)) /\ ReadyAdd(s, t).at = s.at
  BY <1>1
<1>3. Safe(TimeoutWake(s, t)) /\ TimeoutWake(s, t).at = s.at
  <2> DEFINE r == IF s.wait[t] = NULL THEN s ELSE ListRemove(s, s.wait[t], t)
             q == [r EXCEPT !.result[t] = "ETIMEOUT", !.wait[t] = NULL, !.deadline[t] = 0]
  <2>1. s.wait[t] # NULL => s.wait[t] \in List
    BY ListsNameTasks DEF Safe, KernelType
  <2>2. Safe(r) /\ r.at = s.at
    BY <2>1, RemoveKeeps DEF Safe, SameTasks
  <2>3. TimeoutWake(s, t) = ReadyAdd(q, t)
    BY DEF TimeoutWake, Wake
  <2> HIDE DEF r
  <2>4. 0 \in Tick
    BY SchedAssumption DEF Tick
  <2>5. q \in KernelType /\ SameTasks(q, r) /\ q.state = r.state
    BY <2>2, <2>4 DEF Safe, KernelType, Results, SameTasks
  <2> HIDE DEF q
  <2>6. Safe(q)
    BY <2>2, <2>5 DEF Safe, SameTasks
  <2>7. Safe(ReadyAdd(q, t)) /\ ReadyAdd(q, t).at = q.at
    BY <1>1, <2>6
  <2> QED
    BY <2>2, <2>3, <2>5, <2>7 DEF SameTasks
<1> QED
  BY <1>2, <1>3 DEF ScanTask

\* The time slice of the current task.
LEMMA SliceSafe ==
  ASSUME NEW s, Safe(s), s.at = "tick"
  PROVE  Safe(SliceTick(s)) /\ SliceTick(s).at = "tick"
<1> DEFINE c == s.cur
           less == [s EXCEPT !.slice[c] = @ - 1]
           full == [s EXCEPT !.slice[c] = SliceTicks]
<1>1. c \in Tcb /\ s.slice[c] \in 0 .. SliceTicks /\ SliceTicks \in 0 .. SliceTicks
  BY SchedAssumption DEF Safe, KernelType
<1> HIDE DEF c
<1>2. ASSUME s.slice[c] > 1 PROVE Safe(less) /\ less.at = "tick"
  <2>1. s.slice[c] - 1 \in 0 .. SliceTicks
    BY <1>1, <1>2, SchedAssumption
  <2> QED
    BY <1>1, <2>1 DEF Safe, KernelType
<1>3. Safe(full) /\ full.at = "tick" /\ full \in KernelType
  BY <1>1 DEF Safe, KernelType
<1> HIDE DEF full
<1>4. Safe(ReadyAdd(full, c)) /\ ReadyAdd(full, c).at = "tick"
  BY <1>1, <1>3, ReadyAddSafe, ReadyAddKeeps DEF SameTasks
<1>5. \/ SliceTick(s) \in {s, full, ReadyAdd(full, c)}
      \/ s.slice[c] > 1 /\ SliceTick(s) = less
  BY DEF SliceTick, c, full
<1> HIDE DEF less
<1> QED
  BY <1>2, <1>3, <1>4, <1>5

\* One lemma per step of the kernel.
LEMMA KernelStepSafe ==
  ASSUME Safe(k), KernelStep
  PROVE  Safe(k')
<1>1. Safe(k) /\ k \in KernelType
  BY DEF Safe
<1>2. ASSUME NEW t \in Task, NEW p \in CreatePrio[t], MainCreate(t, p) PROVE Safe(k')
  <2>1. p \in Prio
    BY SchedAssumption
  <2> QED
    BY <1>1, <1>2, <2>1, CreatedSafe DEF MainCreate
<1>3. CASE KernelStart
  BY <1>1, <1>3 DEF KernelStart, Safe, KernelType, Sections
<1>4. CASE StartFirst
  <2> DEFINE t == Highest(k)
             s == IF t = Idle THEN k ELSE ReadyRemove(k, t)
             r == [s EXCEPT !.state[t] = "RUNNING", !.cur = t]
             q == [r EXCEPT !.running = TRUE, !.at = "task"]
  <2>1. t \in Tcb
    BY <1>1, HighestIsTask
  <2> HIDE DEF t
  <2>2. /\ s \in KernelType
        /\ \A u \in Tcb : s.state[u] # "RUNNING"
    BY <1>1, <1>4, <2>1, ReadyRemoveKeeps, ListsNameTasks DEF Safe, StartFirst
  <2>3. k' = q
    BY <1>4, <2>2 DEF StartFirst, t, KernelType
  <2> HIDE DEF s
  <2>4. /\ r \in KernelType /\ r.cur = t
        /\ \A u \in Tcb : r.state[u] = "RUNNING" => u = t
    BY <2>1, <2>2 DEF KernelType, States, Link
  <2> HIDE DEF r
  <2>5. q \in KernelType /\ q.cur = t /\ q.state = r.state /\ q.at = "task"
    BY <2>4 DEF KernelType, Sections
  <2> HIDE DEF q
  <2>6. Safe(q)
    BY <2>1, <2>4, <2>5 DEF Safe
  <2> QED
    BY <1>4, <2>3, <2>6 DEF StartFirst
<1>5. CASE SkipOverflowed
  <2>1. Highest(k) \in Tcb
    BY <1>1, HighestIsTask
  <2>2. Safe(GuardFail(ReadyRemove(k, Highest(k)), Highest(k)))
    BY <1>1, <2>1, ReadyRemoveSafe, GuardFailSafe
  <2> QED
    BY <1>5, <2>2 DEF SkipOverflowed
<1>6. CASE Switch
  <2>1. Highest(k) \in Tcb /\ k.cur \in Tcb /\ k.at = "sched"
    BY <1>1, <1>6, HighestIsTask DEF Safe, Switch
  <2> DEFINE s == IF Highest(k) = k.cur THEN k ELSE SwitchTo(k, Highest(k))
  <2>2. Safe(s) /\ s.at = "sched"
    BY <1>1, <2>1, SwitchToSafe
  <2>3. k' = [s EXCEPT !.at = "task"]
    BY <1>6 DEF Switch
  <2> HIDE DEF s
  <2> QED
    BY <1>6, <2>2, <2>3, SectionSafe DEF Switch
<1>7. CASE IdleSched
  BY <1>1, <1>7, CallSchedSafe DEF IdleSched, Runs
<1>8. CASE TickStart
  <2> DEFINE now == (k.tick + 1) % TickMod
  <2>1. now \in Tick
    BY <1>1, SchedAssumption DEF KernelType, Tick
  <2> DEFINE s == [k EXCEPT !.tick = now, !.at = "tick", !.i = 1]
  <2>2. k' = s /\ k.at = "task"
    BY <1>8 DEF TickStart
  <2> HIDE DEF now
  <2>3. /\ s \in KernelType /\ s.at = "tick" /\ s.i = 1
        /\ s.state = k.state /\ s.cur = k.cur
    BY <1>1, <2>1 DEF KernelType, Sections
  <2> HIDE DEF s
  <2>4. Safe(k')
    BY <1>1, <2>2, <2>3 DEF Safe
  <2> QED
    BY <1>8, <2>4 DEF TickStart
<1>9. CASE TickScan
  <2> DEFINE t == k.table[k.i]
             s == ScanTask(k, t)
  <2>1. t \in Tcb /\ k.at = "tick" /\ k.i \in Nat /\ k.i >= 1
    BY <1>1, <1>9 DEF TickScan, Safe, KernelType
  <2> HIDE DEF t
  <2>2. Safe(s) /\ s.at = "tick"
    BY <1>1, <2>1, ScanSafe
  <2>3. k' = [s EXCEPT !.i = @ + 1]
    BY <1>9 DEF TickScan, t
  <2> HIDE DEF s
  <2>4. s.i \in Nat /\ s.i >= 1 /\ s.i + 1 \in Nat /\ s.i + 1 >= 1
    BY <2>2 DEF Safe, KernelType
  <2>5. Safe(k')
    BY <2>2, <2>3, <2>4 DEF Safe, KernelType
  <2> QED
    BY <1>9, <2>5 DEF TickScan
<1>10. CASE TickEnd
  <2> DEFINE s == SliceTick(k)
             back == [s EXCEPT !.i = 0]
             noted == [s EXCEPT !.i = 0, !.pend = s.running \/ s.pend]
             out == [noted EXCEPT !.at = "task"]
  <2>1. Safe(s) /\ s.at = "tick"
    BY <1>1, <1>10, SliceSafe DEF TickEnd
  <2> HIDE DEF s
  <2>2. (s.running \/ s.pend) \in BOOLEAN
    BY <2>1 DEF Safe, KernelType
  <2>3. out \in KernelType /\ out.state = s.state /\ out.cur = s.cur /\ out.at = "task"
    BY <2>1, <2>2 DEF Safe, KernelType, Sections
  <2>4. SchedFromIrq(back) = noted
    BY <2>1 DEF SchedFromIrq, Safe, KernelType
  <2>5. k' = IrqExit(noted)
    BY <1>10, <2>4 DEF TickEnd, s
  <2>6. IrqExit(noted) \in {CallSched(out), out}
    BY DEF IrqExit
  <2> HIDE DEF noted, out
  <2>7. Safe(out)
    BY <2>1, <2>3 DEF Safe
  <2>8. Safe(CallSched(out))
    BY <2>3, <2>7, CallSchedSafe
  <2> QED
    BY <1>10, <2>5, <2>6, <2>7, <2>8 DEF TickEnd
<1> QED
  BY <1>2, <1>3, <1>4, <1>5, <1>6, <1>7, <1>8, <1>9, <1>10 DEF KernelStep

-----------------------------------------------------------------------------
(* The steps of tasks.                                                     *)

\* A write of a field that Safe does not speak about.
LEMMA SetFieldSafe ==
  ASSUME NEW s, Safe(s), NEW t \in Tcb
  PROVE  /\ \A v \in Tick : Safe([s EXCEPT !.wake[t] = v])
         /\ \A v \in BOOLEAN : Safe([s EXCEPT !.guard[t] = v])
         /\ \A v \in 0 .. LockMax : Safe([s EXCEPT !.lock = v])
         /\ \A v, w \in Prio : Safe([s EXCEPT !.prio[t] = v, !.base[t] = w])
<1>1. ASSUME NEW v \in Tick PROVE Safe([s EXCEPT !.wake[t] = v])
  BY DEF Safe, KernelType
<1>2. ASSUME NEW v \in BOOLEAN PROVE Safe([s EXCEPT !.guard[t] = v])
  BY DEF Safe, KernelType
<1>3. ASSUME NEW v \in 0 .. LockMax PROVE Safe([s EXCEPT !.lock = v])
  BY DEF Safe, KernelType
<1>4. ASSUME NEW v \in Prio, NEW w \in Prio PROVE Safe([s EXCEPT !.prio[t] = v, !.base[t] = w])
  BY DEF Safe, KernelType
<1> QED
  BY <1>1, <1>2, <1>3, <1>4

\* os_task_delete and os_task_suspend
LEMMA StoppedSafe ==
  ASSUME NEW s, Safe(s), s.at = "task", NEW t \in Tcb, NEW v \in {"TERMINATED", "SUSPENDED"}
  PROVE  Safe(Stopped(s, t, v)) /\ Stopped(s, t, v).at = "task"
<1> DEFINE r == IF s.state[t] = "READY" THEN ReadyRemove(s, t) ELSE s
<1>1. s \in KernelType
  BY DEF Safe
<1>2. Safe(r) /\ r.at = "task"
  BY <1>1, ReadyRemoveSafe, ReadyRemoveKeeps DEF SameTasks
<1>3. Stopped(s, t, v) = [r EXCEPT !.state[t] = v]
  BY DEF Stopped
<1> HIDE DEF r
<1>4. v \in States /\ v # "RUNNING"
  BY DEF States
<1>5. Safe([r EXCEPT !.state[t] = v])
  BY <1>2, <1>4, StateSafe
<1>6. [r EXCEPT !.state[t] = v].at = "task"
  BY <1>2 DEF Safe, KernelType
<1> QED
  BY <1>3, <1>5, <1>6

\* os_task_delay
LEMMA DelayedSafe ==
  ASSUME NEW s, Safe(s), s.at = "task", NEW t \in Tcb, NEW ticks \in Nat
  PROVE  Safe(Delayed(s, t, ticks)) /\ Delayed(s, t, ticks).at = "task"
<1> DEFINE r == IF s.state[t] = "READY" THEN ReadyRemove(s, t) ELSE s
           due == (s.tick + ticks) % TickMod
           q == [r EXCEPT !.wake[t] = due]
           o == [q EXCEPT !.state[t] = "SLEEPING"]
<1>1. s \in KernelType /\ due \in Tick
  <2>1. s \in KernelType
    BY DEF Safe
  <2>2. s.tick \in Tick
    BY <2>1 DEF KernelType
  <2>3. \A n \in Nat : n % TickMod \in 0 .. TickMod - 1
    BY SchedAssumption
  <2>4. s.tick + ticks \in Nat
    BY <2>2, SchedAssumption DEF Tick
  <2> QED
    BY <2>1, <2>3, <2>4 DEF Tick
<1>2. Safe(r) /\ r.at = "task"
  BY <1>1, ReadyRemoveSafe, ReadyRemoveKeeps DEF SameTasks
<1>3. Delayed(s, t, ticks) = [r EXCEPT !.wake[t] = due, !.state[t] = "SLEEPING"]
  BY DEF Delayed
<1> HIDE DEF r, due
<1>4. Safe(q)
  BY <1>1, <1>2, SetFieldSafe
<1>5. o = [r EXCEPT !.wake[t] = due, !.state[t] = "SLEEPING"] /\ o.at = r.at
  BY <1>2 DEF Safe, KernelType
<1> HIDE DEF q
<1>6. Safe(o)
  BY <1>4, StateSafe DEF States
<1> QED
  BY <1>2, <1>3, <1>5, <1>6

\* os_task_set_prio
LEMMA RePrioSafe ==
  ASSUME NEW s, Safe(s), s.at = "task", NEW t \in Tcb, NEW p \in Prio
  PROVE  Safe(RePrio(s, t, p)) /\ RePrio(s, t, p).at = "task"
<1> DEFINE follows == s.prio[t] = s.base[t] \/ p < s.prio[t]
           off == IF s.state[t] = "READY" THEN ReadyRemove(s, t) ELSE s
           v == IF follows THEN p ELSE off.prio[t]
           set == [off EXCEPT !.prio[t] = v, !.base[t] = p]
<1>1. s \in KernelType
  BY DEF Safe
<1>2. Safe(off) /\ off.at = "task"
  BY <1>1, ReadyRemoveSafe, ReadyRemoveKeeps DEF SameTasks
<1>3. RePrio(s, t, p) = IF s.state[t] = "READY" THEN ReadyAdd(set, t) ELSE set
  BY DEF RePrio
<1> HIDE DEF off
<1>4. v \in Prio
  BY <1>2 DEF Safe, KernelType
<1> HIDE DEF v
<1>5. set \in KernelType /\ set.at = "task"
  BY <1>2, <1>4 DEF Safe, KernelType
<1>6. Safe(set)
  BY <1>2, <1>4, SetFieldSafe
<1> HIDE DEF set
<1>7. Safe(ReadyAdd(set, t)) /\ ReadyAdd(set, t).at = "task"
  BY <1>5, <1>6, ReadyAddSafe, ReadyAddKeeps DEF SameTasks
<1> QED
  BY <1>3, <1>5, <1>6, <1>7

\* One case per call of the task interface.
LEMMA TaskStepSafe ==
  ASSUME Safe(k), NEW c \in Task, TaskStep(c)
  PROVE  Safe(k')
<1>1. Safe(k) /\ k \in KernelType /\ c \in Tcb
  BY ListsNameTasks DEF Safe
<1>2. CASE EnterSched(c)
  <2>1. Safe(k')
    BY <1>1, <1>2, CallSchedSafe DEF EnterSched
  <2> QED
    BY <1>1, <1>2, <2>1 DEF EnterSched, Safe
<1>3. ASSUME NEW t \in Task, NEW p \in CreatePrio[t], TaskCreate(c, t, p) PROVE Safe(k')
  <2>1. p \in Prio /\ k.at = "task"
    BY <1>3, SchedAssumption DEF TaskCreate, Runs
  <2> DEFINE s == Created(k, t, p)
  <2>2. Safe(s) /\ s.at = "task"
    BY <1>1, <2>1, CreatedSafe
  <2>3. k' = CallSched(s) \/ k' = s
    BY <1>3 DEF TaskCreate
  <2> HIDE DEF s
  <2>4. Safe(k')
    BY <2>2, <2>3, CallSchedSafe
  <2> QED
    BY <2>4
<1>4. ASSUME NEW t \in Task, NEW v \in {"TERMINATED", "SUSPENDED"}, Runs(c), StopTask(c, t, v)
      PROVE  Safe(k')
  <2> DEFINE s == Stopped(k, t, v)
  <2>1. t \in Tcb /\ k.at = "task"
    BY <1>4, ListsNameTasks DEF Runs
  <2>2. Safe(s) /\ s.at = "task"
    BY <1>1, <2>1, StoppedSafe
  <2>3. ThenSched(c, s) \/ (k' = s /\ UNCHANGED pc)
    BY <1>4 DEF StopTask
  <2> HIDE DEF s
  <2> QED
    BY <2>2, <2>3, ThenSchedSafe
<1>5. ASSUME NEW t \in Task, TaskResume(c, t) PROVE Safe(k')
  <2>1. t \in Tcb /\ k.at = "task" /\ ThenSched(c, Resumed(k, t))
    BY <1>5, ListsNameTasks DEF Runs, TaskResume
  <2>2. Safe(ReadyAdd(k, t)) /\ ReadyAdd(k, t).at = "task"
    BY <1>1, <2>1, ReadyAddSafe, ReadyAddKeeps DEF SameTasks
  <2>3. Safe(Resumed(k, t)) /\ Resumed(k, t).at = "task"
    BY <1>1, <2>1, <2>2 DEF Resumed
  <2> QED
    BY <2>1, <2>3, ThenSchedSafe
<1>6. ASSUME NEW t \in Task, NEW p \in CreatePrio[t], TaskSetPrio(c, t, p) PROVE Safe(k')
  <2>1. p \in Prio /\ k.at = "task" /\ t \in Tcb
    BY <1>6, SchedAssumption, ListsNameTasks DEF TaskSetPrio, Runs
  <2>2. Safe(RePrio(k, t, p)) /\ RePrio(k, t, p).at = "task"
    BY <1>1, <2>1, RePrioSafe
  <2>3. UNCHANGED vars \/ ThenSched(c, RePrio(k, t, p))
    BY <1>6 DEF TaskSetPrio
  <2> QED
    BY <1>1, <2>2, <2>3, ThenSchedSafe DEF vars
<1>7. CASE TaskYield(c)
  <2>1. k.at = "task" /\ (UNCHANGED vars \/ ThenSched(c, ReadyAdd(k, c)))
    BY <1>7 DEF TaskYield, Runs
  <2>2. Safe(ReadyAdd(k, c)) /\ ReadyAdd(k, c).at = "task"
    BY <1>1, <2>1, ReadyAddSafe, ReadyAddKeeps DEF SameTasks
  <2> QED
    BY <1>1, <2>1, <2>2, ThenSchedSafe DEF vars
<1>8. ASSUME NEW ticks \in Delays, TaskDelay(c, ticks) PROVE Safe(k')
  <2>1. ticks \in Nat /\ k.at = "task" /\ ThenSched(c, Delayed(k, c, ticks))
    BY <1>8, SchedAssumption DEF TaskDelay, Runs
  <2>2. Safe(Delayed(k, c, ticks)) /\ Delayed(k, c, ticks).at = "task"
    BY <1>1, <2>1, DelayedSafe
  <2> QED
    BY <2>1, <2>2, ThenSchedSafe
<1>9. CASE SchedLock(c)
  <2>1. k.lock + 1 \in 0 .. LockMax /\ k' = [k EXCEPT !.lock = k.lock + 1] /\ UNCHANGED pc
    BY <1>1, <1>9, SchedAssumption DEF SchedLock, KernelType
  <2> QED
    BY <1>1, <2>1, SetFieldSafe
<1>10. CASE SchedUnlock(c)
  <2> DEFINE v == k.lock - 1
             s == [k EXCEPT !.lock = v]
  <2>1. v \in 0 .. LockMax /\ k.at = "task"
    BY <1>1, <1>10, SchedAssumption DEF SchedUnlock, Runs, KernelType
  <2>2. ThenSched(c, s) \/ (k' = s /\ UNCHANGED pc)
    BY <1>10 DEF SchedUnlock
  <2> HIDE DEF v
  <2>3. Safe(s) /\ s.at = "task"
    BY <1>1, <2>1, SetFieldSafe DEF KernelType
  <2> HIDE DEF s
  <2> QED
    BY <2>2, <2>3, ThenSchedSafe
<1>11. CASE Overflow(c)
  BY <1>1, <1>11, SetFieldSafe DEF Overflow
<1> QED
  BY <1>2, <1>3, <1>4, <1>5, <1>6, <1>7, <1>8, <1>9, <1>10, <1>11
     DEF TaskStep, TaskDelete, TaskSuspend

-----------------------------------------------------------------------------
\* A call of the task interface leads to places in a call that its callers know.
LEMMA PlacesStay ==
  ASSUME NEW Place, {"run", "call"} \subseteq Place, pc \in [Tcb -> Place], [TasksNext]_vars
  PROVE  pc' \in [Tcb -> Place]
<1>1. CASE UNCHANGED pc
  BY <1>1
<1>2. ASSUME NEW c \in Task, NEW s, ThenSched(c, s) PROVE pc' \in [Tcb -> Place]
  BY <1>2 DEF ThenSched
<1>3. CASE KernelStep
  BY <1>1, <1>3 DEF KernelStep, MainCreate, KernelStart, StartFirst, SkipOverflowed, Switch,
                    IdleSched, TickStart, TickScan, TickEnd
<1>4. ASSUME NEW c \in Task, EnterSched(c) PROVE pc' \in [Tcb -> Place]
  BY <1>4 DEF EnterSched
<1>5. ASSUME NEW c \in Task, NEW t \in Task, NEW p \in CreatePrio[t], TaskCreate(c, t, p)
      PROVE  pc' \in [Tcb -> Place]
  BY <1>5 DEF TaskCreate
<1>6. ASSUME NEW c \in Task, NEW t \in Task,
             TaskDelete(c, t) \/ TaskSuspend(c, t) \/ TaskResume(c, t)
      PROVE  pc' \in [Tcb -> Place]
  BY <1>1, <1>2, <1>6 DEF TaskDelete, TaskSuspend, TaskResume, StopTask
<1>7. ASSUME NEW c \in Task, NEW t \in Task, NEW p \in CreatePrio[t], TaskSetPrio(c, t, p)
      PROVE  pc' \in [Tcb -> Place]
  BY <1>1, <1>2, <1>7 DEF TaskSetPrio, vars
<1>8. ASSUME NEW c \in Task, TaskYield(c) \/ \E ticks \in Delays : TaskDelay(c, ticks)
      PROVE  pc' \in [Tcb -> Place]
  BY <1>1, <1>2, <1>8 DEF TaskYield, TaskDelay, vars
<1>9. ASSUME NEW c \in Task, SchedLock(c) \/ SchedUnlock(c) \/ Overflow(c)
      PROVE  pc' \in [Tcb -> Place]
  BY <1>1, <1>2, <1>9 DEF SchedLock, SchedUnlock, Overflow
<1> QED
  BY <1>1, <1>3, <1>4, <1>5, <1>6, <1>7, <1>8, <1>9 DEF TasksNext, TaskStep, vars

LEMMA TasksInvariant == TasksSpec => []TasksInv
<1>1. TasksInv /\ [TasksNext]_vars => TasksInv'
  <2> SUFFICES ASSUME TasksInv, [TasksNext]_vars PROVE TasksInv'
    OBVIOUS
  <2>1. CASE UNCHANGED vars
    BY <2>1 DEF TasksInv, Safe, vars
  <2>2. CASE KernelStep
    BY <2>2, KernelStepSafe, PlacesStay DEF TasksInv, TasksNext
  <2>3. ASSUME NEW c \in Task, TaskStep(c) PROVE TasksInv'
    BY <2>3, TaskStepSafe, PlacesStay DEF TasksInv, TasksNext
  <2> QED
    BY <2>1, <2>2, <2>3 DEF TasksNext
<1> QED
  BY <1>1, InitSafe, PTL DEF TasksSpec

\* The kernel's structures have their types in every reachable state: links name
\* control blocks, a search of the ready lists finds one, and the indices of the
\* tick handler's scan stay in the table.
THEOREM TypesHold == TasksSpec => []TypeOK
<1>1. TasksInv => TypeOK
  BY DEF TasksInv, Safe, TypeOK
<1> QED
  BY <1>1, TasksInvariant, PTL

\* At most one task is RUNNING, and it is g_current_task, whatever tasks call,
\* wherever the tick comes and whoever overruns its stack.
THEOREM OneTaskRuns == TasksSpec => []SoleRunning
<1>1. TasksInv => SoleRunning
  BY DEF TasksInv, Safe, SoleRunning
<1> QED
  BY <1>1, TasksInvariant, PTL
=============================================================================
