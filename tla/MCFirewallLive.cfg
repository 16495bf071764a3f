SPECIFICATION FairSpec
CONSTANTS
    c1 = c1
    Contents = {c1}
    Paths = {p1}
    PyPI = {p1}
    Envs = {ci}
    Serves <- OneContent
    Declares <- OneDigest
    Assessors = {a1, a2}
    Approvers = {r1}
    Revokers = {v1}
    Routes = {"files", "pypi"}
    PermitIds = {i1, i2}
    Mode = "enforce"
    SandboxBackend = "docker"
    Faults = FALSE
    None = None
    Torn = Torn
PROPERTIES RequestsEnd RevocationReaches
