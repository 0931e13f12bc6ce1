SPECIFICATION Spec

CONSTANTS
    create = create
    replace = replace
    Attempts = {a1, a2, a3}
    Keys = {create, replace}
    NoKey = NoKey
    Writes <- MCWrites
    MaxId = 2
    MaxRevision = 2
    MaxChanges = 1

PROPERTIES
    ImplementsLedger
