SPECIFICATION Spec
CONSTANTS
    Configs <- SomeConfigs
    Starts <- Clean
    Capabilities = {"pth_exec", "native_code", "import_time_sensitive"}
    Ages = {0, 1, 24}
    Budget = 2
    Unknown = Unknown
INVARIANTS KeepsToItsMode ProdIsStrictest PresetsOrdered
PROPERTY NeverRelaxed
CHECK_DEADLOCK FALSE
