\* A page holds a configuration, or two entries and a rest; the recorder has two
\* sectors of two pages, the others one each.
CONSTANTS
  PageWords = 7
  SectorWords = 14
  ConfigWords = 4
  MaxSaves = 2
  CrashWords = 3
  MaxCrashes = 2
  LogWords = 3
  MaxBoots = 3
  CrashAddr = 14
  BlackboxAddr = 28
  FlashSizeEnd = 56
SPECIFICATION Spec
INVARIANTS
  LogReadsBack
  StopsOnlyWhenFull
PROPERTIES
  EachAsIfAlone
  LoadsOneConfig
CHECK_DEADLOCK FALSE
