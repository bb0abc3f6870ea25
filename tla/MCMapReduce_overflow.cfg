CONSTANTS
  Keys <- MCKeys
  Values <- MCValues
  Input <- MCInput
  MapFn <- MCMapFn
  ReduceFn <- MCReduceFn
  MapperCount = 2
  ReducerCount = 2
  MaxIntermediate = 2
  MaxValuesPerKey = 1
  MaxCalls = 1
  NoOutput = NoOutput
SPECIFICATION Spec
\* The harness's main returns after its last call.
CHECK_DEADLOCK FALSE
INVARIANT ValueCapacity
