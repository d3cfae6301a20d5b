CONSTANTS
    a = a
    b = b
    s1 = s1
    s2 = s2
    k1 = k1
    pk1 = pk1
    hk = hk
    hpk = hpk
    NotRegistered = NotRegistered
    NoKey = NoKey
    Forged = Forged
    Nothing = Nothing
    Ids = {a, b}
    d1 = d1
    Destinations = {d1}
    Bodies <- TargetedOperations
    Sessions = {s1, s2}
    KeyIds = {k1}
    PublicKeys = {pk1, hpk}
    ToolKeyId = k1
    ToolKey = pk1
    Level = "L1"
    Countersigns = FALSE
    Signs = FALSE
    Verifies = FALSE
    RequireCountersign = FALSE
    HostKeyId = hk
    HostKey = hpk
    HostKeyVaries = FALSE
    AttemptRetries = 0
    MaxLost = 0
    MaxMisdelivered = 0
    MayGiveUp = TRUE
    MaxHostClock = 3
    MaxSignerSeq = 0
    SessionOf <- TwoCalls
    Events <- ToolEvents
SPECIFICATION ReconciliationSpec
INVARIANTS
    AlarmsAreCovert
    CovertIsFound
