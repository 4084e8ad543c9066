SPECIFICATION Spec
CONSTANTS
  Table <- RuntimeTable
  Metadata <- MCMetadata
  Overrides <- MCOverrides
  Targets <- MCTargets
  Blocks <- MCBlocks
  Streams <- MCStreams
INVARIANTS
  RegistryDecodesAsMetadata
  CreateSucceedsIffDescribed
  RecursionResolved
  BlockParsed
CHECK_DEADLOCK FALSE
