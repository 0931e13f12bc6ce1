SPECIFICATION Spec

CONSTANTS
    Items <- MCItems
    Contents = {text, corrected}
    MaxPage = 2
    MaxRevision = 3
    MaxChanges = 2
    Kinds <- MCKinds

INVARIANTS
    ReleasedWasAllowed
    ReleasedIsAsSaved
    RefusedForAReason
