----------------------------- MODULE SortedList -----------------------------
(***************************************************************************)
(* The sorted singly linked list of src/lab/Lab6/example_2.c: the      *)
(* global list head and the running total info.sum, changed by             *)
(* insert_sorted, and read by sum_list and index_of.  The list is the      *)
(* sequence of its nodes' data from head on; any sequence of calls of      *)
(* insert_sorted with values from a small set is explored, of which main's *)
(* calls 1, 3, 5, 2 are one.                                               *)
(***************************************************************************)
EXTENDS Naturals, Integers, Sequences, SequencesExt

CONSTANTS
  Values,       \* the uint64_t values insert_sorted is called with
  MaxInserts    \* bound on the calls of insert_sorted

ASSUME Values \subseteq Nat /\ MaxInserts \in Nat

VARIABLES
  list,       \* the data of the nodes from head, in list order
  infoSum,    \* info.sum
  phase,      \* "running"; "exited" (ASSERT on malloc); "crashed" (NULL write)
  inserted    \* every value insert_sorted has been called with and linked

vars == <<list, infoSum, phase, inserted>>

Init ==
  /\ list = <<>>
  /\ infoSum = 0
  /\ phase = "running"
  /\ inserted = <<>>

-----------------------------------------------------------------------------
(* The read-only functions. *)

\* sum_list: the data of every node added up.
sum_list == FoldSeq(+, 0, list)

\* Fault variant: the loop does not stop at the first match.
IndexOfLast(d) ==
  LET I == {i \in 1..Len(list) : list[i] = d}
  IN  IF I = {} THEN -1 ELSE Max(I) - 1

\* index_of: the 0-based position of the first node holding d, or -1.
index_of(d) == SelectInSeq(list, LAMBDA x : x = d) - 1

-----------------------------------------------------------------------------
(* insert_sorted(data). *)

\* Fault variant: the head branch forgets info.sum += data.
InsertHeadNoSum(d) ==
  /\ list' = <<d>> \o list
  /\ infoSum' = infoSum

\* head == NULL || data < head->data: the new node becomes the head.
InsertHead(d) ==
  /\ list' = <<d>> \o list
  /\ infoSum' = infoSum + d

\* Fault variant: the new node is linked after curr instead of after prev.
InsertPosPastCurr(s, d) ==
  LET stop == SelectInSeq(s, LAMBDA x : ~(x < d))
  IN  IF stop = 0 THEN Len(s) ELSE stop

\* The walk: the number of nodes passed while curr->data < data.
InsertPos(s, d) ==
  LET stop == SelectInSeq(s, LAMBDA x : ~(x < d))
  IN  IF stop = 0 THEN Len(s) ELSE stop - 1

Linked(d) == inserted' = Append(inserted, d) /\ UNCHANGED phase

Call(d) ==
  /\ phase = "running"
  /\ Len(inserted) < MaxInserts

\* malloc returns NULL: ASSERT prints and exit(1).
MallocFails(d) ==
  /\ Call(d)
  /\ phase' = "exited"
  /\ UNCHANGED <<list, infoSum, inserted>>

\* The whole insert_sorted on a successful malloc.
insert_sorted(d) ==
  /\ Call(d)
  /\ IF list = <<>> \/ d < list[1]
       THEN InsertHead(d) /\ Linked(d)
     ELSE IF InsertPos(list, d) = 0
       \* data == head->data: the loop never runs, and prev->next writes
       \* through NULL.
       THEN phase' = "crashed" /\ UNCHANGED <<list, infoSum, inserted>>
     ELSE /\ list' = InsertAt(list, InsertPos(list, d) + 1, d)
          /\ infoSum' = infoSum + d
          /\ Linked(d)

Next == \E d \in Values : MallocFails(d) \/ insert_sorted(d)

Spec == Init /\ [][Next]_vars

-----------------------------------------------------------------------------
(* Properties. *)

Count(s, v) == Len(SelectSeq(s, LAMBDA x : x = v))

TypeOK ==
  /\ list \in Seq(Values)
  /\ infoSum \in Nat
  /\ phase \in {"running", "exited", "crashed"}
  /\ inserted \in Seq(Values)

\* After any calls of insert_sorted, the list is in non-decreasing order and
\* holds exactly the values inserted so far (the call that crashes links
\* nothing), each as often as it was inserted.
SortedPermutation ==
  /\ IsSorted(list, <=)
  /\ \A v \in Values : Count(list, v) = Count(inserted, v)

\* The ASSERT of main: info.sum, kept by insert_sorted, equals sum_list().
InfoSumMatchesList == infoSum = sum_list

\* The TEST of main generalised: index_of(d) is the number of nodes holding
\* a smaller value when d is in the list (so index_of(2) = 1 after 1, 3, 5,
\* 2), and -1 otherwise.
IndexOfIsRank ==
  \A d \in Values :
    index_of(d) = IF Count(list, d) > 0
                  THEN Len(SelectSeq(list, LAMBDA x : x < d)) ELSE -1

=============================================================================
