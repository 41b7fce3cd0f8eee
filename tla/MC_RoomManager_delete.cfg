SPECIFICATION Spec
CONSTANTS
  None = None p1 = p1 p2 = p2 c1 = c1 c2 = c2
  insA = insA insB = insB delA = delA
  Clients = {c1, c2} Procs = {p1}
  Ops <- DeleteOps KeyOf <- DeleteKeyOf DependsOn <- DeleteDependsOn AuthorOf <- DeleteByOne
  SnapshotThreshold = 9 Faults = {} SerialLoads = TRUE
  MaxConns <- OnceEach MaxDrops <- NoneBreaks
  MaxFaults = 0 MaxEvictions = 0 MaxSeq = 99
INVARIANT AckedDurable
CHECK_DEADLOCK FALSE
