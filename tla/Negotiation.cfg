CONSTANTS
    Versions = {v3, v4}
    Undeclared = Undeclared
    Malformed = Malformed
SPECIFICATION NegotiationSpec
INVARIANTS
    SidesAgree
    RecordedCallFits
    NeverSilentNorStuck
CHECK_DEADLOCK FALSE
