\* insert_sorted called up to four times with values around main's 1, 3, 5, 2.
CONSTANTS
  Values = {1, 2, 3, 5}
  MaxInserts = 4
SPECIFICATION Spec
INVARIANTS SortedPermutation InfoSumMatchesList IndexOfIsRank
\* The calls are bounded and the program ends after them.
CHECK_DEADLOCK FALSE
