SPECIFICATION Spec
CONSTANTS
    a1 = a1
    a2 = a2
    a3 = a3
    k1 = k1
    c1 = c1
    c2 = c2
    misshapen = misshapen
    rejected = rejected
    s1 = s1
    s2 = s2
    Attempts = {a1, a2}
    Keys = {k1}
    NoKey = NoKey
    Contents = {c1, misshapen}
    WellShaped = {c1}
    Valid = {c1}
    Subjects = {s1, s2}
    NoSubject = NoSubject
    MaxRevision = 1
    MaxChanges = 1
    Requests <- MCValidatedRequests
    BeforeWrite = TRUE
INVARIANTS
    EffectWasOffered
    LapsedApprovalStopsWrite
PROPERTY EveryCallAnswered
