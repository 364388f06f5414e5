SPECIFICATION Spec
CONSTANTS
  r1 = r1  r2 = r2
  user = user  other = other  address = address
  encoded = encoded
  Null = Null
  BruteForce = BruteForce
  Requests <- Threads
  Telemetry <- Sources
  Patterns <- OnePattern
  Normalized <- InLowerCase
  Pairs <- ThePairs
  threshold = 2
  window_seconds = 1
  MaxEvents = 3
  MAX_CORRELATION_CANDIDATES = 3
  ScanTimes <- ScanRange
  ScanLength = 5
SYMMETRY Symmetry
INVARIANT
  IngestionIsIsolated
