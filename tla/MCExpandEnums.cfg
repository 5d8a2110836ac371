SPECIFICATION ExpandSpec
CONSTANTS
  Inputs <- MCInputs
  MaxBuilds = 2
INVARIANTS SelfContained
