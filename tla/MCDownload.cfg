SPECIFICATION Spec
CONSTANTS
    c1 = c1
    c2 = c2
    Requests = {r1, r2, r3}
    Contents = {c1, c2}
    Blocks = 2
    Upstreams <- TwoUpstreams
    Digests = {c1, None}
    None = None
SYMMETRY RequestSymmetry
INVARIANTS TypeOK UndisturbedGetsItsBytes AcceptedKeepsBytes NoLeftover
PROPERTY ImplementsPublication
CHECK_DEADLOCK FALSE
