SPECIFICATION Spec
CONSTANTS
    Requests = {p1, p2, p3}
    Contents <- SomeContents
    Jobs <- SomeJobs
    Policies <- SomePolicies
    Backends = {"docker", "none"}
    Requirements = {"more"}
    Imports = {"high"}
    None = None
SYMMETRY Symmetry
INVARIANTS TypeOK ReuseIsFaithful  LifecycleScriptsSeen SandboxNeverClears
PROPERTY ComparedWithApproved
CHECK_DEADLOCK FALSE
