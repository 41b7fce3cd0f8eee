SPECIFICATION Spec
CONSTANTS
  None = None p1 = p1 p2 = p2 c1 = c1 c2 = c2
  insA = insA insB = insB delA = delA
  Clients = {c1, c2} Procs = {p1, p2}
  Ops <- ChainOps KeyOf <- ChainKeyOf DependsOn <- ChainDependsOn AuthorOf <- ChainByOne
  SnapshotThreshold = 9 Faults = {"seq", "publish", "persist", "load", "subscribe", "unsubscribe", "crash"} SerialLoads = FALSE
  MaxConns <- OnceEach MaxDrops <- FirstBreaks
  MaxFaults = 1 MaxEvictions = 1 MaxSeq = 99
INVARIANTS AckedDurable OutboxKeepsUnacked
CHECK_DEADLOCK FALSE
