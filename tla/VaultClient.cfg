CONSTANTS
    v1 = v1
    v2 = v2
    v3 = v3
    i1 = i1
    i2 = i2
    i3 = i3
    Vaults = {v1, v2, v3}
    Items = {i1, i2, i3}
    Names = {"a", "b"}
    Stored <- MCStored
    MaxRequests = 2
    MaxClicks = 6
SPECIFICATION Spec
INVARIANTS RowsAreHeld ClientAgreesWithServer PutsNameTheirVault
PROPERTIES WorkEnds LoadingEnds
CHECK_DEADLOCK FALSE
