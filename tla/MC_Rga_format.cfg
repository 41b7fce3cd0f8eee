SPECIFICATION Spec
CONSTANTS
    Editors = {1, 2}
    Servers = {3}
    Marks = {bold}
    Null = Null
    MaxOps = 3
    MaxBuffered = 0
    MaxReloads = 1
INVARIANTS Convergence NoLostOps 
PROPERTIES EditsAsTyped
