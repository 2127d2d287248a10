SPECIFICATION Spec
CONSTANTS
  Instances = {i1, i2}
  Physicals = {g1, g2}
  Devices = {"xclipse", "xclipse_bc", "other"}
  Driver <- MCDriver
  Requests <- MCRequests
  Shapes <- MCShapes
  Overrides = {}
  None = None
INVARIANTS TypeOK QueryMatchesCreate CacheTellsTheTruth PromisesKept ViewsValid VirtualImagesDecodable
SYMMETRY Symmetry
