------------------------------ MODULE Sorting ------------------------------
(***************************************************************************)
(* The sorting functions of algApp/sort, as functions on arrays with       *)
(* indices from 0.  An element is a key and the place it came from, which  *)
(* the functions never look at: it shows whether a sort is stable.  The    *)
(* keys are integers; int value and int midVal in insert_sort and          *)
(* partition would truncate others.                                        *)
(***************************************************************************)
EXTENDS Integers, Sequences, FiniteSets, SequencesExt

CONSTANTS Key, MaxLen

VARIABLES algorithm, input, arr, done

vars == <<algorithm, input, arr, done>>

Size(a) == Cardinality(DOMAIN a)

\* The numbers m .. n - 1 in order: for (int j = m; j < n; j++).
Range0(m, n) == [k \in 1..(n - m) |-> m + k - 1]

Swap(a, i, j) == [a EXCEPT ![i] = a[j], ![j] = a[i]]

\* Mutant: equal neighbours are swapped too.
SwapsEqual(a, j) == IF a[j].key >= a[j + 1].key THEN Swap(a, j, j + 1) ELSE a

BubbleStep(a, j) == IF a[j].key > a[j + 1].key THEN Swap(a, j, j + 1) ELSE a

\* The passes from the i-th on; a pass without a swap is the last one.
RECURSIVE Bubbled(_, _)
Bubbled(a, i) ==
    LET b == FoldLeft(BubbleStep, a, Range0(0, Size(a) - 1 - i))
    IN IF i >= Size(a) - 1 \/ b = a THEN a ELSE Bubbled(b, i + 1)

bubble_sort(a) == Bubbled(a, 0)

\* The inner loop of insert_sort: larger elements move up, value goes below them.
RECURSIVE Inserted(_, _, _)
Inserted(a, j, value) ==
    IF j >= 0 /\ a[j].key > value.key
    THEN Inserted([a EXCEPT ![j + 1] = a[j]], j - 1, value)
    ELSE [a EXCEPT ![j + 1] = value]

insert_sort(a) == FoldLeft(LAMBDA b, i : Inserted(b, i - 1, b[i]), a, Range0(1, Size(a)))

select_sort(a) ==
    LET least(b, i) == FoldLeft(LAMBDA m, j : IF b[j].key < b[m].key THEN j ELSE m,
                                i, Range0(i + 1, Size(b)))
    IN FoldLeft(LAMBDA b, i : Swap(b, i, least(b, i)), a, Range0(0, Size(a)))

\* What merge writes to tmp, in order.  When the left half has elements left the
\* last loop runs to right, past the end of tmp, which has right - left places;
\* the model takes it that the memory behind tmp is nobody's.
RECURSIVE Merged(_, _, _, _, _)
Merged(a, i, mid, j, right) ==
    IF i < mid /\ j < right
    THEN IF a[i].key <= a[j].key THEN <<a[i]>> \o Merged(a, i + 1, mid, j, right)
                                 ELSE <<a[j]>> \o Merged(a, i, mid, j + 1, right)
    ELSE LET start == IF j < right THEN j ELSE i
         IN [k \in 1..(right - start) |-> a[start + k - 1]]

merge(a, left, mid, right) ==
    LET tmp == Merged(a, left, mid, mid, right)
    IN [k \in DOMAIN a |-> IF k \in left..(right - 1) THEN tmp[k - left + 1] ELSE a[k]]

RECURSIVE mergeHelper(_, _, _)
mergeHelper(a, left, right) ==
    IF left >= right - 1 THEN a
    ELSE LET mid == left + (right - left + 1) \div 2
         IN merge(mergeHelper(mergeHelper(a, left, mid), mid, right), left, mid, right)

merge_sort(a) == mergeHelper(a, 0, Size(a))

\* The array and the place of the pivot, which was the last element.
partition(a, left, right) ==
    LET step(s, j) == IF s.arr[j].key < a[right - 1].key
                      THEN [arr |-> Swap(s.arr, s.i, j), i |-> s.i + 1] ELSE s
        t == FoldLeft(step, [arr |-> a, i |-> left], Range0(left, right - 1))
    IN [t EXCEPT !.arr = Swap(t.arr, t.i, right - 1)]

RECURSIVE quickHelper(_, _, _)
quickHelper(a, left, right) ==
    IF left >= right - 1 THEN a
    ELSE LET p == partition(a, left, right)
         IN quickHelper(quickHelper(p.arr, left, p.i), p.i + 1, right)

quick_sort(a) == quickHelper(a, 0, Size(a))

-----------------------------------------------------------------------------
Stable == {"bubble", "insert", "merge"}

Init ==
    /\ algorithm \in Stable \cup {"select", "quick"}
    /\ \E n \in 0..MaxLen : \E k \in [0..(n - 1) -> Key] :
           input = [i \in 0..(n - 1) |-> [key |-> k[i], from |-> i]]
    /\ arr = input
    /\ done = FALSE

Sort ==
    /\ ~done
    /\ arr' = CASE algorithm = "bubble" -> bubble_sort(arr)
                [] algorithm = "insert" -> insert_sort(arr)
                [] algorithm = "select" -> select_sort(arr)
                [] algorithm = "merge" -> merge_sort(arr)
                [] algorithm = "quick" -> quick_sort(arr)
    /\ done' = TRUE
    /\ UNCHANGED <<algorithm, input>>

Spec == Init /\ [][Sort]_vars

-----------------------------------------------------------------------------
\* The result is the input in order of its keys; bubble_sort, insert_sort and
\* merge_sort keep equal keys in the order they had: they are the sorts that
\* algApp/docs/sort.md (53, 112, 246) calls stable.
SortsInput == done =>
    /\ DOMAIN arr = DOMAIN input
    /\ {arr[i] : i \in DOMAIN arr} = {input[i] : i \in DOMAIN input}
    /\ \A i, j \in DOMAIN arr : i < j =>
           \/ arr[i].key < arr[j].key
           \/ arr[i].key = arr[j].key /\ (algorithm \in Stable => arr[i].from < arr[j].from)
=============================================================================
