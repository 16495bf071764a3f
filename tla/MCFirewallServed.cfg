SPECIFICATION Spec
CONSTANTS
    c1 = c1
    Contents = {c1}
    Paths = {p1}
    PyPI = {p1}
    Envs = {ci}
    Serves <- OneContent
    Declares <- OneDigest
    Assessors = {a1}
    Approvers = {r1}
    Revokers = {v1}
    Routes = {"files"}
    PermitIds = {i1}
    Mode = "enforce"
    SandboxBackend = "none"
    Faults = FALSE
    None = None
    Torn = Torn
INVARIANT RevokedIsNotServed
