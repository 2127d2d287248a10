SPECIFICATION Spec
CONSTANTS
  t1 = t1
  t2 = t2
  p1 = p1
  p2 = p2
  c1 = c1
  c2 = c2
  c3 = c3
  r1 = r1
  r2 = r2
  NoPool = NoPool
  Threads <- MCThreads
  Pools <- MCPools
  CommandBuffers <- MCTwoBuffers
  Keys = {"dispatch table"}
  KeyOf <- LoaderKeys
  Resources <- MCResources
INVARIANT SafeRelease
