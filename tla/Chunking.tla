------------------------------ MODULE Chunking ------------------------------
(***************************************************************************)
(* Contiguous partitioning of an index range among worker threads.  mr_exec *)
(* (src/lecture/test3/src/interface.c) uses the same arithmetic twice: for  *)
(* the mapper pool over the input pairs and for the reducer pool over the   *)
(* positions of the intermediate store.  Indices are 0-based as in the C    *)
(* loops; a worker with start >= end runs no iteration.                     *)
(***************************************************************************)
EXTENDS Naturals

\* Fault variant: chunk_size = count / workers, rounding down.
ChunkSizeFloor(count, workers) == count \div workers

\* chunk_size = (count + workers - 1) / workers   (ceiling division)
ChunkSize(count, workers) == (count + workers - 1) \div workers

\* args[t].start = t * chunk_size
ChunkStart(count, workers, t) == t * ChunkSize(count, workers)

\* Fault variant: end not clamped to count, as in the commented-out earlier
\* version of mr_exec (interface.c:342).
ChunkEndUnclamped(count, workers, t) == (t + 1) * ChunkSize(count, workers)

\* args[t].end = (t + 1) * chunk_size, clamped to count
ChunkEnd(count, workers, t) ==
  LET e == (t + 1) * ChunkSize(count, workers)
  IN  IF e > count THEN count ELSE e

\* The indices i with start <= i < end that the worker loop visits.
ChunkIndices(count, workers, t) ==
  ChunkStart(count, workers, t) .. (ChunkEnd(count, workers, t) - 1)

\* Worker ids as created by `for (t = 0; t < workers; t++)`.
Workers(workers) == 0 .. (workers - 1)
=============================================================================
