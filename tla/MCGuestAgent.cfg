SPECIFICATION Spec
CONSTANTS
    Drives = {"H", "P"}
    Printers = {"P"}
    Homes = {"H"}
    Configs <- MCConfigs
    Keys = {"k1", "k2"}
    NoKey = NoKey
    Datagrams <- MCDatagrams
    QueryTries = 10
    MountTries = 15
    PrinterDelay = 4
    ScriptTries = 3
INVARIANTS
    TypeOK
    NoUseAfterErase
    CacheIsCurrent
    ExplorerKilledRarely
PROPERTIES
    PrintersGetTheirTry
    Settles
    ErasedInTheEnd
