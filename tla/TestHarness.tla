----------------------------- MODULE TestHarness -----------------------------
(***************************************************************************)
(* The partition and thread-count tests of src/lecture/test3/src:          *)
(* partition_input and partition_intermediate (partition.c), and           *)
(* number_of_mappers and number_of_reducers (number_of_mappers_reducers.c).*)
(*                                                                         *)
(* Each test loops over n = 2, 4, ..., 2^Rounds.  For each n it resets the *)
(* recorder, calls mr_exec with n workers on the side it measures, and     *)
(* checks the recording.  The recorder (pin_map, pinter_reduce or          *)
(* thread_count) runs on every worker thread, once per element of that     *)
(* thread's chunk.  Under p_lock (nmr_lock) it claims the first slot that  *)
(* is empty or already carries the thread's id, and appends to it.         *)
(*                                                                         *)
(* The chunks come from mr_exec's arithmetic (module Chunking).  Each test *)
(* has one mr_exec side whose callback records nothing (pin_reduce,        *)
(* nom_reduce) or only emits (pinter_map, nor_map), and that side is left  *)
(* out.  In partition_intermediate and number_of_reducers one mapper emits *)
(* distinct keys in input order, so intermediate position j holds input    *)
(* element j.  An element is its index, which stands for its distinct key. *)
(***************************************************************************)
EXTENDS Naturals, Sequences, FiniteSets, FiniteSetsExt, Chunking

CONSTANTS
  DataSize,     \* MAX_DATA_SIZE
  MaxThreads,   \* MAX_THREADS, the number of recorder slots
  Rounds,       \* iterations of the test loop (5 in the code)
  Tests         \* the test functions run

ASSUME Rounds >= 1 /\ 2^Rounds <= MaxThreads /\ 2^Rounds <= DataSize
ASSUME Tests \subseteq {"partition_input", "partition_intermediate",
                        "number_of_mappers", "number_of_reducers"}

Slots == 0 .. MaxThreads - 1
NoId == MaxThreads        \* no pthread_t of a worker; the initial zero id

VARIABLES
  test,      \* the test function running
  round,     \* loop index i of the test; n = 1 << (i + 1)
  slots,     \* partitions[i].kv_lst[0 .. count-1] (threads[i].count is Len)
  slotId,    \* partitions[i].id / threads[i].id
  tooMany,   \* too_many_partitions / too_many_threads
  pLock,     \* p_lock / nmr_lock: NoId or the worker holding it
  wpc,       \* each worker thread: "none", "run", "scanned", "done"
  wpos,      \* elements of its chunk the worker has passed to the recorder
  wslot,     \* the slot index the recorder's scan stopped at
  results    \* the f of each finished iteration, in order

vars == <<test, round, slots, slotId, tooMany, pLock, wpc, wpos, wslot, results>>

\* n = 1 << (i + 1): the number of mappers or reducers of iteration i.
N(i) == 2^(i + 1)

\* The elements the measured side works on: MAX_DATA_SIZE input pairs for
\* the partition tests, MAX_THREADS for the thread-count tests.
Count(t) == IF t \in {"partition_input", "partition_intermediate"}
            THEN DataSize ELSE MaxThreads

\* The element worker w hands to the recorder next.
Item(w) == ChunkStart(Count(test), N(round), w) + wpos[w]

HasItem(w) == Item(w) < ChunkEnd(Count(test), N(round), w)

\* partitions_reset / nmr_reset, then mr_exec starts the n workers of the
\* measured side.  The ids of the slots are not reset.
Started(i) == [w \in Slots |-> IF w < N(i) THEN "run" ELSE "none"]

StartIteration(i) ==
  /\ slots' = [s \in Slots |-> <<>>]
  /\ tooMany' = FALSE
  /\ wpc' = Started(i)
  /\ wpos' = [w \in Slots |-> 0]
  /\ wslot' = [w \in Slots |-> 0]

Init ==
  /\ test \in Tests
  /\ round = 0
  /\ slotId = [s \in Slots |-> NoId]
  /\ pLock = NoId
  /\ results = <<>>
  /\ slots = [s \in Slots |-> <<>>]
  /\ tooMany = FALSE
  /\ wpc = Started(0)
  /\ wpos = [w \in Slots |-> 0]
  /\ wslot = [w \in Slots |-> 0]

-----------------------------------------------------------------------------
(* The recorder, on worker thread w, for the element Item(w). *)

\* Fault variant: the scan ignores pthread_equal(id, self).
ClaimSlotNoSelf(w) ==
  LET C == {s \in Slots : Len(slots[s]) = 0} IN IF C = {} THEN MaxThreads ELSE Min(C)

\* The scan: the first slot with count 0 or the thread's own id; MAX_THREADS
\* when the loop runs to the end.
ClaimSlot(w) ==
  LET C == {s \in Slots : Len(slots[s]) = 0 \/ slotId[s] = w}
  IN  IF C = {} THEN MaxThreads ELSE Min(C)

\* Fault variant: the scan runs without taking the lock.
ScanUnlocked(w) ==
  /\ wpc[w] = "run" /\ HasItem(w)
  /\ wslot' = [wslot EXCEPT ![w] = ClaimSlot(w)]
  /\ wpc' = [wpc EXCEPT ![w] = "scanned"]
  /\ UNCHANGED <<pLock, slots, slotId, tooMany, wpos>>

\* map_thread / reduce_thread calls the callback, which locks and scans.
Scan(w) ==
  /\ wpc[w] = "run" /\ HasItem(w)
  /\ pLock = NoId
  /\ pLock' = w
  /\ wslot' = [wslot EXCEPT ![w] = ClaimSlot(w)]
  /\ wpc' = [wpc EXCEPT ![w] = "scanned"]
  /\ UNCHANGED <<slots, slotId, tooMany, wpos>>

\* Fault variant: the callback returns without unlocking.
WriteKeepsLock(w) ==
  /\ wpc[w] = "scanned"
  /\ IF wslot[w] < MaxThreads
       THEN /\ slots' = [slots EXCEPT ![wslot[w]] = Append(@, Item(w))]
            /\ slotId' = [slotId EXCEPT ![wslot[w]] = w]
            /\ UNCHANGED tooMany
       ELSE tooMany' = TRUE /\ UNCHANGED <<slots, slotId>>
  /\ wpos' = [wpos EXCEPT ![w] = @ + 1]
  /\ wpc' = [wpc EXCEPT ![w] = "run"]
  /\ UNCHANGED <<pLock, wslot>>

\* Claim the slot: set its id, copy the element, count++; or set the
\* too-many flag.  Unlock; the worker loop goes on to its next element.
Write(w) ==
  /\ wpc[w] = "scanned"
  /\ IF wslot[w] < MaxThreads
       THEN /\ slots' = [slots EXCEPT ![wslot[w]] = Append(@, Item(w))]
            /\ slotId' = [slotId EXCEPT ![wslot[w]] = w]
            /\ UNCHANGED tooMany
       ELSE tooMany' = TRUE /\ UNCHANGED <<slots, slotId>>
  /\ pLock' = NoId
  /\ wpos' = [wpos EXCEPT ![w] = @ + 1]
  /\ wpc' = [wpc EXCEPT ![w] = "run"]
  /\ UNCHANGED wslot

\* The worker's loop reaches its chunk's end and the thread returns.
Finish(w) ==
  /\ wpc[w] = "run" /\ ~HasItem(w)
  /\ wpc' = [wpc EXCEPT ![w] = "done"]
  /\ UNCHANGED <<slots, slotId, tooMany, pLock, wpos, wslot>>

Worker(w) ==
  /\ Scan(w) \/ Write(w) \/ Finish(w)
  /\ UNCHANGED <<test, round, results>>

-----------------------------------------------------------------------------
(* The test's main thread. *)

\* partition_cmp(in, n) == 0: the first n slots each hold MAX_DATA_SIZE / n
\* elements, and for each i the slot whose first key is that of element
\* i * size holds elements i * size .. (i + 1) * size - 1 in order.
partition_cmp(n) ==
  LET size == DataSize \div n
  IN  /\ \A s \in 0 .. n - 1 : Len(slots[s]) = size
      /\ \A i \in 0 .. n - 1 :
           \E pos \in 0 .. n - 1 :
             /\ slots[pos][1] = i * size
             /\ \A j \in 0 .. size - 1 : slots[pos][j + 1] = i * size + j

\* Fault variant: every slot is counted, not only those with count > 0.
ThreadCmpAllSlots(max) == Cardinality(Slots) = max

\* thread_cmp(max) == 0: exactly max slots have a non-zero count.
thread_cmp(max) == Cardinality({s \in Slots : Len(slots[s]) > 0}) = max

\* f: mr_exec returned 0, the comparison holds and no scan ran off the end.
IterationPassed ==
  /\ IF test \in {"partition_input", "partition_intermediate"}
       THEN partition_cmp(N(round)) ELSE thread_cmp(N(round))
  /\ ~tooMany

\* mr_exec joins its threads and returns; free_output; TEST(f); and the loop
\* goes on with the next n after the reset.
EndIteration ==
  /\ \A w \in Slots : wpc[w] \in {"none", "done"}
  /\ round < Rounds
  /\ results' = Append(results, IterationPassed)
  /\ round' = round + 1
  /\ IF round + 1 < Rounds
       THEN StartIteration(round + 1)
       ELSE UNCHANGED <<slots, tooMany, wpc, wpos, wslot>>
  /\ UNCHANGED <<test, slotId, pLock>>

Next == EndIteration \/ \E w \in Slots : Worker(w)

\* pthreads are preemptive; each thread's work is finite.
Spec ==
  /\ Init /\ [][Next]_vars
  /\ WF_vars(EndIteration)
  /\ \A w \in Slots : WF_vars(Worker(w))

-----------------------------------------------------------------------------
(* Properties. *)

\* The elements worker w has handed to the recorder, in its loop's order.
Handed(w) == [k \in 1 .. wpos[w] |-> ChunkStart(Count(test), N(round), w) + k - 1]

\* Under p_lock, every non-empty slot belongs to one worker of the current
\* iteration, no worker owns two, and it holds exactly that worker's
\* elements so far in order, whatever the interleaving of the workers'
\* callbacks.
SlotsTrackWorkers ==
  round < Rounds =>
    \A s \in Slots : Len(slots[s]) > 0 =>
      /\ slotId[s] < N(round)
      /\ slots[s] = Handed(slotId[s])
      /\ \A s2 \in Slots \ {s} : Len(slots[s2]) > 0 => slotId[s2] # slotId[s]

\* Every iteration of every test passes TEST(f) in every schedule.
TestsPass == \A r \in 1 .. Len(results) : results[r]

\* Every test runs all its iterations to the end.
AllIterationsFinish == <>(round = Rounds)

=============================================================================
