--------------------------- MODULE MCTestHarness ---------------------------
(***************************************************************************)
(* The harness's tests with small MAX_THREADS and MAX_DATA_SIZE, together  *)
(* with an exhaustive check of the chunk arithmetic the workers of those   *)
(* tests are given, over every element count up to MaxCount and every     *)
(* worker count up to MaxWorkers.                                          *)
(***************************************************************************)
EXTENDS TestHarness

CONSTANTS MaxCount, MaxWorkers

\* The chunks of the workers partition the elements (spec.md, thread-count
\* fan-out): no loop reads past the last element, every element is visited
\* by exactly one worker, and the chunks follow the workers' order.  The
\* chunk size does not appear here: only what the loops visit.
ExactFor(count, workers) ==
  LET Chunk(t) == ChunkIndices(count, workers, t)
  IN  /\ \A t \in Workers(workers) : Chunk(t) \subseteq 0 .. (count - 1)
      /\ \A i \in 0 .. (count - 1) :
           Cardinality({t \in Workers(workers) : i \in Chunk(t)}) = 1
      /\ \A t, u \in Workers(workers) :
           t < u => \A i \in Chunk(t), j \in Chunk(u) : i < j

ExactUpToBounds ==
  \A count \in 0 .. MaxCount, workers \in 1 .. MaxWorkers : ExactFor(count, workers)

\* The chunks of mr_exec have no gap, no overlap and no out-of-bounds read of
\* input->kv_lst or intermediate[], for every element count up to MaxCount
\* and worker count up to MaxWorkers, and for those of the running test's
\* current iteration.
PartitionExact == ExactUpToBounds /\ ExactFor(Count(test), N(round))

=============================================================================
