SPECIFICATION Spec
CONSTANTS
  None = None p1 = p1 p2 = p2 c1 = c1 c2 = c2
  insA = insA insB = insB delA = delA
  Clients = {c1, c2} Procs = {p1}
  Ops <- ChainOps KeyOf <- ChainKeyOf DependsOn <- FreeDependsOn AuthorOf <- ChainByTwo
  SnapshotThreshold = 2 Faults = {"link", "seq", "publish", "persist", "snapshot", "load", "crash"} SerialLoads = TRUE
  MaxConns <- TwiceFirst MaxDrops <- EachBreaks
  MaxFaults = 1 MaxEvictions = 0 MaxSeq = 3
INVARIANTS TypeOK AckedDurable NothingMissed CatchUpCompletes NoOrphans
PROPERTIES  ImplementsService
CHECK_DEADLOCK FALSE
