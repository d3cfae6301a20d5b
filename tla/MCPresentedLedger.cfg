CONSTANTS
    a = a
    b = b
    s1 = s1
    k1 = k1
    pk1 = pk1
    h1 = h1
    h2 = h2
    pkH1 = pkH1
    pkH2 = pkH2
    c1 = c1
    c2 = c2
    c3 = c3
    NotRegistered = NotRegistered
    NoKey = NoKey
    Forged = Forged
    Nothing = Nothing
    OutOfDomain = OutOfDomain
    Ids = {a, b}
    Bodies = {"action"}
    Sessions = {s1}
    KeyIds = {k1}
    PublicKeys = {pk1, pkH1, pkH2}
    ToolKeyId = k1
    ToolKey = pk1
    Chains = {c1, c2, c3}
    ScriptOf <- Scripts
    LogOf <- Names
    KeyOf <- HostIds
    HostKeys <- KeysOfHosts
    Events <- NoEvents
    MaySpoil = {"event"}
    MaxEdits = 2
SPECIFICATION PresentedSpec
INVARIANTS
    OriginalVerifies
    IdentityBinds
    AnchoredCopyIsOriginal
    RequiredMeansSealed
    NothingSkippedInSilence
CHECK_DEADLOCK FALSE
