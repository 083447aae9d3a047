CONSTANTS
  PageWords = 256
  SectorWords = 4096
  Cells = {0, 4100, 4101, 4148, 4149, 8192, 8193, 8194, 8195, 8196, 8197, 8198, 8199, 65536, 69632, 69633, 69634, 69635}
  Starts = {8192, 69632}
  EntryBytes = 2
  MaxEntries = 2
  MaxCrashes = 1
SPECIFICATION Spec
INVARIANTS
  UndisturbedIsWhole
PROPERTIES
  StrayErasesHitBlockStarts
  StrayProgramsStayInEntry
  CallsEnd
