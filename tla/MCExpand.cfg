SPECIFICATION ExpandSpec
CONSTANTS
  Inputs <- MCInputs
  MaxBuilds = 2
INVARIANTS ConfigExact SchemaFixesWire
