\* A sector of one page, so that no entry crosses a page and the sector fills.
CONSTANTS
  PageWords = 10
  SectorWords = 10
  CrashAddr = 10
  EntryWords = 3
  MaxCrashes = 5
SPECIFICATION ReportSpec
INVARIANTS
  EarlyCrashesAreDumped
  ErasedOnlyWhenFull
  WatchdogIsNamed
  SoftwareIsNamed
PROPERTY FaultIsShown
