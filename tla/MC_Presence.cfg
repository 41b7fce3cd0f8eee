SPECIFICATION FairSpec
CONSTANTS
  None = None p1 = p1 p2 = p2 c1 = c1 c2 = c2
  Clients = {c1, c2} Procs = {p1, p2}
  Faults = {"set", "remove", "sweep", "publish", "crash"}
  MaxConns = 2 Budgets <- Scenarios
INVARIANTS TypeOK ShownIsBacked
PROPERTIES GhostsGo LiveShown
CHECK_DEADLOCK FALSE
