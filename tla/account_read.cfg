SPECIFICATION MCSpec

CONSTANTS
    Keys <- MCKeys
    MaxVersion = 2
    MaxChanges = 2
    MaxRequests = 2
    Limits = {2}
    Stored <- MCStored
    Connection = 2
    Kinds = {"read", "discover", "offer", "available", "writable", "searchable"}

INVARIANTS
    HandedOverWasAllowed
    NamesWereListed
    AvailableForOneAccount
    WalkIsExact
