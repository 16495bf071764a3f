SPECIFICATION Spec
CONSTANTS
    l1 = l1
    g1 = g1
    g2 = g2
    Lockfiles = {l1}
    Basename <- OneName
    PermitFile <- OwnFiles
    Texts <- SomeTexts
    Newlines = {"lf"}
    Deps <- SomeDeps
    Pins <- ParsedPins
    Envs = {ci}
    Gates = {g1, g2}
    Mode = "enforce"
    None = None
    Torn = Torn
    Names <- SomeNames
    Normal <- LowerCase
    Versions = {"1", "2"}
    Depth = 1
SYMMETRY GateSymmetry
INVARIANTS VerifiedWasAdmitted BarredStaysOut PassedGateVerifies LockedWasAdmitted
