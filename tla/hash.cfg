SPECIFICATION Spec
CONSTANTS
  e1 = e1
  e2 = e2
  e3 = e3
  e4 = e4
  Elems = {e1, e2, e3, e4}
  Null = Null
  Key <- KeyOf
  Hash <- HashOf
  HASH_INITIAL_NUM_BUCKETS = 1
  HASH_BKT_CAPACITY_THRESH = 2
  MaxBuckets = 4
SYMMETRY Symmetry
INVARIANTS Fsck LookupFinds ScanComplete LoopDeletes
PROPERTY IsOrderedMap
