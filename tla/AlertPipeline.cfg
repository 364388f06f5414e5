SPECIFICATION MCSpec
CONSTANTS
  r1 = r1  r2 = r2
  user = user  other = other  address = address
  encoded = encoded
  Null = Null
  BruteForce = BruteForce
  Requests <- Threads
  Telemetry <- Sources
  Patterns <- OnePattern
  Normalized <- InLowerCase
  Pairs <- ThePairs
  threshold = 2
  window_seconds = 1
  MaxEvents = 3
  MAX_CORRELATION_CANDIDATES = 3
  ScanTimes <- ScanRange
  ScanLength = 5
  Analysts = {a1, a2, a3}
SYMMETRY Symmetry
INVARIANTS
  TypeOK
  ScanFindsEarliest
  EvidenceJustifies
  DuplicatesOverlapped
  NothingSlipsThrough
  ResolvedWasEngaged
PROPERTIES
  ResolvedIsLeftByTheOvertaken
