SPECIFICATION Spec
CONSTANTS
  t1 = t1
  t2 = t2
  i1 = i1
  i2 = i2
  v1 = v1
  v2 = v2
  v3 = v3
  s1 = s1
  s2 = s2
  NoImage = NoImage
  NoView = NoView
  Gone = Gone
  Threads <- MCThreads
  Images <- MCImages
  Views <- MCViews
  Sets <- MCSets
  MaxRegions = 2
  InitialCapacity = 1
  GrowthCap = 4
  Fallback = 1
SYMMETRY Symmetry
INVARIANTS
  TypeOK
  ViewsAccounted
  ViewsInUseLive
  SetsInOnePlace
  NoOtherImage
