CONSTANTS
  Graphs <- MCGraphs
  top = top
  ga = ga
  gb = gb
  gc = gc
  gd = gd
  Top = top
  Names <- MCNames
  Leaves <- MCLeaves
  MaxDepth = 2
  Inputs <- MCInputs
SPECIFICATION Spec
INVARIANTS
  StructureAsRecursive
  WorkIsLinear
  FaultsDecide
  ParametersAsDefined
  SameDepthLimit
PROPERTY
  ValidationsReturn
CHECK_DEADLOCK FALSE
