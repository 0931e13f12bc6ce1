SPECIFICATION MCSpec

CONSTANTS
    c1 = c1  c2 = c2  c3 = c3  u1 = u1  u2 = u2  t1 = t1  t2 = t2  v1 = v1  v2 = v2
    NotListed = NotListed
    Users = {u1, u2}
    Tools = {t1, t2}
    Versions = {v1, v2}
    Calls = {c1, c2, c3}
    Requests <- MCRequests
    MaxRevision = 2
    MaxChanges = 1

INVARIANTS
    UpdatesInSequence
    AnswersAreTrue
    ShownWasTrue
    TakenForListedVersion

PROPERTIES
    ImplementsRegister
    OwnersAreIsolated
    EveryRequestAnswered
