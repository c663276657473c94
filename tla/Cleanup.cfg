\* Four checkpoints, one of them special, and a cache file; two are kept.
SPECIFICATION StorageSpec
CONSTANTS
  File = {1, 2, 3, 4, 5}
  Special = {1}
  Cache = {3}
  Keep = 2
  MaxDay = 2
INVARIANT OnlyApprovedDeleted
CHECK_DEADLOCK FALSE
