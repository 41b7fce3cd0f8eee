SPECIFICATION Spec
CONSTANTS
  None = None p1 = p1 p2 = p2 c1 = c1 c2 = c2
  insA = insA insB = insB delA = delA
  Clients = {c1, c2} Procs = {p1}
  Ops <- ChainOps KeyOf <- ChainKeyOf DependsOn <- ChainDependsOn AuthorOf <- ChainByTwo
  SnapshotThreshold = 9 Faults = {} SerialLoads = FALSE
  MaxConns <- OnceEach MaxDrops <- NoneBreaks
  MaxFaults = 0 MaxEvictions = 0 MaxSeq = 99
INVARIANT NothingMissed
CHECK_DEADLOCK FALSE
