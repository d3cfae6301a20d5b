CONSTANTS
    a = a
    b = b
    s1 = s1
    s2 = s2
    k1 = k1
    k2 = k2
    pk1 = pk1
    pk2 = pk2
    NotRegistered = NotRegistered
    NoKey = NoKey
    Forged = Forged
    Nothing = Nothing
    Ids = {a, b}
    Bodies = {"action"}
    Sessions = {s1, s2}
    KeyIds = {k1, k2}
    PublicKeys = {pk1, pk2}
    Level = "L2"
    Countersigns = TRUE
    MaxHostClock = 3
    Events <- KeyEvents
SPECIFICATION Spec
INVARIANTS
    RecordsStillVerify
    ChainHolds
    WindowIsExact
    LedgerVerifies
