CONSTANTS
    u1 = u1
    u2 = u2
    u3 = u3
    p = p
    NoUid = NoUid
    NoPid = NoPid
    PilotStatus <- Plugged
    SafetyEntry = {}
    Uid = {u1, u2, u3}
    ValidUid = {u1, u2, u3}
    Pid = {p}
    Parent <- Parents
    LocalList = {}
    Tid = {1}
    MaxRequests = 2
    InitConf = {}
    Writable = {}
    Calls = {"ClearCache"}
    Env = {}
SPECIFICATION Spec
PROPERTIES OnlyFamilyReleases
SYMMETRY Symmetry
