CONSTANTS
    PilotStatus <- AllStatus
    SafetyEntry <- AllEntries
SPECIFICATION FairSpec
INVARIANTS PowerExactlyInCD FaultIsDriven
PROPERTIES KeepsPowerPromise EmergencyOpensRelay FaultRecovers
