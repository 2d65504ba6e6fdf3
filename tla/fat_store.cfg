SPECIFICATION StoreSpec
CONSTANTS
  ENTRY = 3
  BLOCK_SIZE = 2
  BYTES = 2
  Names <- Plain
  FileNames <- MCFileNames
  Chars <- MCChars
  Newline = NL
  Space = SP
  Contents <- MCContents
  Blank <- MCBlank
  Stale <- MCStale
  MaxFaults = 1
PROPERTIES
  ImplementsFat
  SurvivorsSound
CONSTRAINT
  Sound
