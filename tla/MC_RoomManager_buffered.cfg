SPECIFICATION Spec
CONSTANTS
  None = None p1 = p1 p2 = p2 c1 = c1 c2 = c2
  insA = insA insB = insB delA = delA
  Clients = {c1, c2} Procs = {p1}
  Ops <- ChainOps KeyOf <- ChainKeyOf DependsOn <- ChainDependsOn AuthorOf <- ChainByOther
  SnapshotThreshold = 2 Faults = {"crash"} SerialLoads = TRUE
  MaxConns <- TwiceFirst MaxDrops <- NoneBreaks
  MaxFaults = 1 MaxEvictions = 0 MaxSeq = 99
INVARIANT AckedDurable
CHECK_DEADLOCK FALSE
