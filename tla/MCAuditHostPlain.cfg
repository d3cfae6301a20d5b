CONSTANTS
    a = a
    b = b
    s1 = s1
    s2 = s2
    k1 = k1
    k2 = k2
    pk1 = pk1
    pk2 = pk2
    NotRegistered = NotRegistered
    NoKey = NoKey
    Forged = Forged
    Nothing = Nothing
    Ids = {a, b}
    Bodies = {"action"}
    Sessions = {s1, s2}
    KeyIds = {k1}
    PublicKeys = {pk1}
    Level = "L1"
    Countersigns = FALSE
    MaxHostClock = 3
    Events <- PlainEvents
SPECIFICATION Spec
INVARIANTS
    BooksMatchLedger
    OneTerminalRecord
    NoAttemptAfterTerminal
    OutcomeHasAttempt
    OneAttemptPerId
PROPERTIES
    UnresolvedAtEnd
