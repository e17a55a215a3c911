CONSTANTS
    u1 = u1
    u2 = u2
    u3 = u3
    p = p
    NoUid = NoUid
    NoPid = NoPid
    PilotStatus <- Draw
    SafetyEntry = {}
    Uid = {u1}
    ValidUid = {u1}
    Pid = {}
    Parent <- Parents
    LocalList = {}
    Tid = {1, 2}
    MaxRequests = 1
    InitConf = {}
    Writable = {}
    Calls = {"RemoteStart", "RemoteStop"}
    Env = {"powerloss", "drop", "timeout", "clock"}
SPECIFICATION Spec
INVARIANTS PowerOnlyWhileCharging PowerIsBilled StopMatchesCheckpoint OneTransaction
PROPERTIES KeepsPowerPromise
