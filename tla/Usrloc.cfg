\* Two URIs of one AOR, both write modes, with and without insert buffering.
CONSTANTS
    u1 = u1
    u2 = u2
    a1 = a1
    a2 = a2
    Uris = {u1, u2}
    Aors = {a1}
    AorOf <- OneAor
    Ids = {1, 2}
    Regs = {1, 2, 3}
    None = none
    Setups <- AllSetups
    BufferSize = 2
    Batch = 2
    SyncSetups <- WriteBackUnbuffered
    Faults <- Retried
    MaxFaults = 1
    EarlyTraffic = FALSE
SPECIFICATION Spec
INVARIANTS TypeOK    
 
