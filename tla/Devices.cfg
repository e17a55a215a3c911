SPECIFICATION DevicesSpec
CONSTANTS
    t1 = t1
    t2 = t2
    Highs = {2985, 2986, 3039}
    Lows = {500, 900}
    Duties = {0, 50}
    Timers = {t1, t2}
    MaxAdcErrors = 1
    Expected = {50, 60}
    Mains = {0, 50, 60, 100}
    MaxBusFaults = 1
    Amps = {16, 40, 52}
    MaxCommands = 3
    MaxSetupFaults = 1
    Dogs = {t1, t2}
    Period <- MCPeriod
    LongestNap = 2
    Clients = {t1, t2}
    PoolSize = 2
    MaxFlights = 1
    MaxTimerErrors = 1
INVARIANTS
    MainsWatched
    RelayFollows
    InputsSettle
    
    
    HostTimersRight

    
    
CHECK_DEADLOCK FALSE
