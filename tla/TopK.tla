---------------------------------- MODULE TopK ----------------------------------
(***************************************************************************)
(* Gradient compression (federated/src/fl_compress.c): fl_compress_topk,   *)
(* which keeps the k values of greatest magnitude by partitioning in       *)
(* place, and fl_decompress_topk.  One step is one pass over a part of the *)
(* array.  Positions count from 0, as in the code.                         *)
(***************************************************************************)
EXTENDS Integers, Sequences, FiniteSetsExt, SequencesExt

CONSTANTS
  Value,        \* the values of gradients, abstracted to integers
  Capacity      \* the capacity of fl_gradient_t, at least the size of the input

ASSUME TopKAssumption == Value \subseteq Int /\ Capacity \in Nat \ {0}

VARIABLES
  input,        \* the gradients that are compressed
  values, indices,  \* fl_gradient_t
  k,            \* how many are kept
  left, right   \* quickselect_partition

topkvars == <<input, values, indices, k, left, right>>

Size == Len(input)
Abs(v) == IF v < 0 THEN -v ELSE v

\* fl_compress_topk up to the partition.  The ratio decides k, which is at least 1;
\* without a value to drop there is nothing to partition.
TopKInit ==
  /\ input \in UNION { [1 .. n -> Value] : n \in 1 .. Capacity }
  /\ values = input
  /\ indices = [j \in 1 .. Size |-> j - 1]
  /\ k \in 1 .. Size
  /\ left = 0 /\ right = IF k < Size THEN Size - 1 ELSE 0

Swapped(f, i, j) == [f EXCEPT ![i + 1] = f[j + 1], ![j + 1] = f[i + 1]]

\* Mutation: magnitudes are compared with the sign.
MutGoesFirst(v, pivot) == v > pivot

\* Whether a value belongs in front of the pivot.
GoesFirst(v, pivot) == Abs(v) > Abs(pivot)

\* quickselect_partition, the inner loop: the arrays and i once j passed over the
\* values before the pivot, and the pivot is moved to i.
Pass(j, s) ==
  IF GoesFirst(s.v[j + 1], values[right + 1])
  THEN [v |-> Swapped(s.v, s.i, j), x |-> Swapped(s.x, s.i, j), i |-> s.i + 1] ELSE s
Partitioned ==
  LET s == FoldLeft(LAMBDA acc, j : Pass(j, acc), [v |-> values, x |-> indices, i |-> left],
                    [n \in 1 .. right - left |-> left + n - 1])
  IN [v |-> Swapped(s.v, s.i, right), x |-> Swapped(s.x, s.i, right), i |-> s.i]

\* The part that is partitioned next.
Narrowed(i) == IF i < k - 1 THEN <<i + 1, right>> ELSE <<left, i - 1>>

\* The outer loop, which ends when the pivot is the k-th value.
Select ==
  LET p == Partitioned IN
  /\ left < right
  /\ values' = p.v /\ indices' = p.x
  /\ IF p.i = k - 1 THEN left' = p.i /\ right' = p.i
     ELSE left' = Narrowed(p.i)[1] /\ right' = Narrowed(p.i)[2]
  /\ UNCHANGED <<input, k>>

Selected == left >= right

TopKNext == Select

TopKSpec == TopKInit /\ [][TopKNext]_topkvars

\* fl_decompress_topk: the last of several values for one position stays.
Decompressed ==
  [x \in 1 .. Size |->
    LET at == { j \in 1 .. k : indices[j] = x - 1 }
    IN IF at = {} THEN 0 ELSE values[Max(at)]]
-----------------------------------------------------------------------------
(* Properties.                                                             *)

\* What compression followed by decompression leaves: k of the gradients, each
\* at its own position, none of the others is greater in magnitude, and zeros.  Until
\* then the k-th value is inside the part that is left, which every pass narrows.
KeepsTheGreatest ==
  IF ~Selected THEN left <= k - 1 /\ k - 1 <= right ELSE
    LET kept == { indices[j] + 1 : j \in 1 .. k } IN
    /\ kept \subseteq 1 .. Size /\ Cardinality(kept) = k
    /\ \A x \in 1 .. Size :
         /\ Decompressed[x] = IF x \in kept THEN input[x] ELSE 0
         /\ \A y \in kept : x \notin kept => Abs(input[x]) <= Abs(input[y])
=============================================================================
