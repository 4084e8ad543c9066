SPECIFICATION FairSpec
CONSTANTS
  Block = {"b1", "b2", "b3", "b4"}
  Runtime = {"r1", "r2"}
  RuntimeOf <- MCRuntimeOf
  Parses <- MCParses
  Config <- MCConfig
INVARIANTS
  MetaMatchesRegistry
  RefusedByOwnRuntime
PROPERTY CallReturns
CHECK_DEADLOCK FALSE
