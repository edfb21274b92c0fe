SPECIFICATION Spec
CONSTANTS
    Daemons = {d1, d2}
    Query = q
    Others = {o}
    Ports <- MCPorts
    Backlog = 0
    NoOne = NoOne
    Drives = {}
    Printers = {}
    Homes = {}
    Configs <- MCConfigs
    QueryTries = 2
    MountTries = 2
    PrinterDelay = 0
    ScriptTries = 0
    PwLen = 8
SYMMETRY MCSymmetry
INVARIANTS
    OnlyOwnPassword
    RequestsAddressListener
PROPERTIES
    ImplementsDelivery
CHECK_DEADLOCK FALSE
