CONSTANTS
    u1 = u1
    u2 = u2
    u3 = u3
    p = p
    NoUid = NoUid
    NoPid = NoPid
    PilotStatus <- Plug
    SafetyEntry = {}
    Uid = {u1}
    ValidUid = {u1}
    Pid = {}
    Parent <- Parents
    LocalList = {}
    Tid = {1}
    MaxRequests = 1
    InitConf = {"LocalPreAuthorize", "AuthorizationCacheEnabled"}
    Writable = {}
    Calls = {}
    Env = {}
SPECIFICATION Spec
INVARIANTS FollowUpNamesUser
