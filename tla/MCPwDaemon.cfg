SPECIFICATION Spec
CONSTANTS
    Daemons = {d1, d2}
    Clients = {c1, c2}
    Own = {c1}
    Ports <- MCPorts
    Backlog = 1
    NoOne = NoOne
INVARIANTS
    TypeOK
    ReplyMatchesListener
    OneListenerPerPort
PROPERTIES
    QueryAnswered
    DaemonFollowsListener
CHECK_DEADLOCK FALSE
