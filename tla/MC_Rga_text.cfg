SPECIFICATION FairSpec
CONSTANTS
    Editors = {1, 2}
    Servers = {3}
    Marks = {}
    Null = Null
    MaxOps = 3
    MaxBuffered = 1
    MaxReloads = 1
INVARIANTS TypeOK OriginRule SameOrder Convergence NoLostOps  IInv
PROPERTIES EditsAsTyped EventualConvergence
