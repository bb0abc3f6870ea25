\* MAX_THREADS 4 and two iterations (n = 2, 4), so the last iteration uses
\* every slot, as n = 32 does with the code's MAX_THREADS 32; MAX_DATA_SIZE 8
\* gives every partition worker more than one element.  All four tests.
CONSTANTS
  DataSize = 8
  MaxThreads = 4
  Rounds = 2
  MaxCount = 12
  MaxWorkers = 8
  Tests = {"partition_input", "partition_intermediate", "number_of_mappers", "number_of_reducers"}
SPECIFICATION Spec
\* Each test function returns after its last iteration.
CHECK_DEADLOCK FALSE
INVARIANTS
  PartitionExact
  SlotsTrackWorkers
  TestsPass
PROPERTIES
  AllIterationsFinish
