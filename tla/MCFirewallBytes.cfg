SPECIFICATION Spec
CONSTANTS
    c1 = c1
    Contents = {c1, c2}
    Paths = {p1}
    PyPI = {p1}
    Envs = {ci}
    Serves <- AnyContent
    Declares <- OneDigest
    Assessors = {a1}
    Approvers = {r1}
    Revokers = {v1}
    Routes = {"files"}
    PermitIds = {i1, i2}
    Mode = "enforce"
    SandboxBackend = "none"
    Faults = FALSE
    None = None
    Torn = Torn
INVARIANT MirrorFaithful
