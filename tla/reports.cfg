SPECIFICATION Spec

CONSTANTS
    Sources = {s1, s2}
    NoSource = NoSource
    Policies = {s1}
    MaxVersion = 1
    MaxChanges = 2
    MaxRequests = 1
    Families = {"report", "analysis"}

INVARIANTS
    HandedOverWasAllowed
    RefusedForAReason
