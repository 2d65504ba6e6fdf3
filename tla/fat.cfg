SPECIFICATION FairSpec
CONSTANTS
  ENTRY = 2
  BLOCK_SIZE = 3
  BYTES = 2
  Names = {a, b, c}
  FileNames <- MCFileNames
  Chars <- MCChars
  Newline = NL
  Space = SP
  Contents <- MCContents
  Blank <- MCBlank
  Stale <- MCStale
INVARIANTS
  BlocksPartitioned
  IInv
PROPERTIES
  CommandsEnd
  ImplementsFileSystem
