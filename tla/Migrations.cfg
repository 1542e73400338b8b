SPECIFICATION FairSpec
CONSTANTS
    Containers = {"api1", "api2"}
    Operator = "operator"
    Users = {"u1", "u2"}
    MaxDowngrades = 2
INVARIANTS TypeOK VersionTellsSchema
PROPERTIES ContainersComeUp
CHECK_DEADLOCK FALSE
