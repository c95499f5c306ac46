SPECIFICATION MCSpec
CONSTANTS
  Block <- Blocks
  HashValue <- Hashes
  InitialCap = 4
  Empty = Empty
  Tombstone = Tombstone
  HeaderSize = 1
  SizeOf <- Sizes
  Nil = Nil
INVARIANTS RegistryExact LookupExact
PROPERTIES ImplementsSet
