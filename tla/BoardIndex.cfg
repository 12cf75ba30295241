\* The event loop and a reading thread of one process, the event loop of another.
SPECIFICATION Spec
CONSTANTS
  host = host
  sidecar = sidecar
  t1 = t1
  t2 = t2
  t3 = t3
  Posts = {p1, p2}
  Processes = {host, sidecar}
  Tasks = {t1, t2, t3}
  ProcessOf <- TwoInHost
  Threads = {t2}
  PostLimit = 1
  MaxWrites = 3
  MaxFaults = 2
SYMMETRY Symmetry
INVARIANTS
  TypeOK
  ReadsAreCurrentUnlessUndermined
  DifferencesAreAnnounced
  WithinLimit
