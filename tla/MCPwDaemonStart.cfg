SPECIFICATION Spec
CONSTANTS
    Daemons = {d1, d2}
    Clients = {c1, c2}
    Own = {c1}
    Ports <- MCPorts
    Backlog = 1
    NoOne = NoOne
INVARIANTS
    RunningDaemonReachable
CHECK_DEADLOCK FALSE
