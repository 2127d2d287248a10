SPECIFICATION Spec
CONSTANTS
  Threads = {t1, t2}
  Memories = {m1}
  Buffers = {b1}
  MemorySize = 3
  Ranges <- MCRanges
  BindOffsets = {1}
  Addresses = {a1}
  Patterns = {p1, p2}
  HashOf <- MCHashOf
  Regions <- MCRegions
  MaxUpload = 2
  MaxBytes = 2
  MaxEntryBytes = 2
  MaxDisturbed = 1
  None = None
INVARIANTS TypeOK ReadsTheBuffer UploadsMatchSource CacheWithinLimits
PROPERTY EvictsOldestFirst
SYMMETRY Symmetry
