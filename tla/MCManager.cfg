SPECIFICATION FairSpec
CONSTANTS
    Managers = {1, 2}
    Threads <- TwoThenOne
    Connections = 2
    Clients = {c1}
    c1 = c1
INVARIANTS ManagerTypeOK ApiHasManager MapsOutliveWorkers ServersAlive ListenersHaveConf
PROPERTIES ReloadCutsOnlyQueued OldManagerGoes ShutsDown
CHECK_DEADLOCK FALSE
