----------------------------- MODULE ReadyHeap -----------------------------
(***************************************************************************)
(* The binary heap of lib/include/heap.h as the scheduler instantiates it  *)
(* (kernel/include/scheduler.h): an array of task descriptors ordered by   *)
(* priority and then by insert_val, the number of insertions before.       *)
(***************************************************************************)
EXTENDS Naturals, Sequences, FiniteSets, Functions

CONSTANTS
  Prios,       \* priorities, 0 is the most urgent
  Tds,         \* what tells descriptors apart; several may look alike
  Cap,         \* K_SCHED_HEAP_CAPACITY (200)
  MaxInserts,  \* bound: global_insertion_count stays below it
  None         \* NULL

ASSUME HeapAssumption == Prios \subseteq Nat /\ {Cap, MaxInserts} \subseteq Nat

VARIABLES
  heap_array,              \* the first count entries, from index 0
  global_insertion_count,
  popped                   \* what the last HEAP_POP returned

heapvars == <<heap_array, global_insertion_count, popped>>

\* A task descriptor and its key, struct kPriorityKey.
HeapEntries == [td : Tds, priority : Prios, insert_val : Nat]

Count(h) == Cardinality(DOMAIN h)

\* cmp_keys_task_dsp
Before(a, b) ==
  IF a.priority = b.priority THEN a.insert_val < b.insert_val
  ELSE a.priority < b.priority

Swap(h, i, j) == [h EXCEPT ![i] = h[j], ![j] = h[i]]

\* The parent of node i; of node 0, node 0.
Parent(i) == IF i >= 1 THEN (i - 1) \div 2 ELSE 0

\* heapify_bottom_top: the entry at i moves up past those it is before.
heapify_bottom_top(h, i) ==
  LET up[j \in DOMAIN h] ==
        [g \in [DOMAIN h -> HeapEntries] |->
          IF Before(g[j], g[Parent(j)]) THEN up[Parent(j)][Swap(g, j, Parent(j))] ELSE g]
  IN  up[i][h]

\* Mutant of MinChild: right is compared with its parent, not with left.
MutMinChild(h, i) ==
  LET left  == 2 * i + 1
      right == 2 * i + 2
      m     == IF left < Count(h) /\ Before(h[left], h[i]) THEN left ELSE i
  IN  IF right < Count(h) /\ Before(h[right], h[i]) THEN right ELSE m

\* The child that takes the place of node i: left if it is before i, then
\* right if it is before the better of the two.
MinChild(h, i) ==
  LET left  == 2 * i + 1
      right == 2 * i + 2
      m     == IF left < Count(h) /\ Before(h[left], h[i]) THEN left ELSE i
  IN  IF right < Count(h) /\ Before(h[right], h[m]) THEN right ELSE m

\* heapify_top_bottom: the entry at i moves down while a child is before it.
heapify_top_bottom(h, i) ==
  LET down[j \in DOMAIN h] ==
        [g \in [DOMAIN h -> HeapEntries] |->
          IF MinChild(g, j) # j THEN down[MinChild(g, j)][Swap(g, MinChild(g, j), j)] ELSE g]
  IN  down[i][h]

HeapInit ==
  /\ heap_array = [i \in {} |-> None]
  /\ global_insertion_count = 0
  /\ popped = None

\* HEAP_INSERT: dropped when the heap is full.
HEAP_INSERT(t, p) ==
  /\ global_insertion_count < MaxInserts
  /\ LET n == Count(heap_array)
         e == [td |-> t, priority |-> p, insert_val |-> global_insertion_count]
     IN  IF n < Cap
           THEN /\ heap_array' = heapify_bottom_top(
                     [i \in 0..n |-> IF i = n THEN e ELSE heap_array[i]], n)
                /\ global_insertion_count' = global_insertion_count + 1
           ELSE UNCHANGED <<heap_array, global_insertion_count>>
  /\ popped' = None

\* HEAP_POP: the last entry takes the place of the first and moves down.
HEAP_POP ==
  LET n == Count(heap_array)
  IN  IF n = 0
        THEN popped' = None /\ UNCHANGED <<heap_array, global_insertion_count>>
        ELSE /\ popped' = heap_array[0].td
             /\ heap_array' = IF n = 1 THEN [i \in {} |-> None]
                  ELSE heapify_top_bottom(
                    [i \in 0..n - 2 |-> IF i = 0 THEN heap_array[n - 1]
                                        ELSE heap_array[i]], 0)
             /\ UNCHANGED global_insertion_count

HeapNext == HEAP_POP \/ \E t \in Tds, p \in Prios : HEAP_INSERT(t, p)

HeapSpec == HeapInit /\ [][HeapNext]_heapvars

-----------------------------------------------------------------------------
EntriesOf(p) == {e \in Range(heap_array) : e.priority = p}

\* The descriptors of some entries in the order they were inserted.
InInsertOrder(es) ==
  LET earlier(e) == {f \in es : f.insert_val < e.insert_val}
  IN  [k \in 1 .. Cardinality(es) |->
        (CHOOSE e \in es : Cardinality(earlier(e)) = k - 1).td]

Abstract == INSTANCE PrioFifo WITH
              q <- [p \in Prios |-> InInsertOrder(EntriesOf(p))],
              count <- Count(heap_array)

\* The heap is a FIFO for each priority: k_sched_get_next returns the task
\* that has been ready for longest at the most urgent priority.
ImplementsPrioFifo == Abstract!Spec
=============================================================================
