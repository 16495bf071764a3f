SPECIFICATION Spec
CONSTANTS
    c1 = c1
    Contents = {c1, c2}
    Paths = {p1}
    PyPI = {p1}
    Envs = {ci}
    Serves <- AnyContent
    Declares <- AnyDigest
    Assessors = {a1, a2, a3}
    Approvers = {}
    Revokers = {}
    Routes = {"files", "pypi"}
    PermitIds = {i1, i2, i3}
    Mode = "enforce"
    SandboxBackend = "none"
    Faults = FALSE
    None = None
    Torn = Torn
SYMMETRY RaceSymmetry
INVARIANTS TypeOK LoopKeepsBytes MirrorFaithful
PROPERTY ImplementsPublication
CHECK_DEADLOCK FALSE
