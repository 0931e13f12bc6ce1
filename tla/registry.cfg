SPECIFICATION Spec

CONSTANTS
    a1 = a1  a2 = a2  k1 = k1  k2 = k2  d1 = d1  d2 = d2
    Blank = Blank
    Absent = Absent
    Adapters = {a1, a2}
    Keys = {k1, k2}
    Contents = {d1, d2}
    Plans <- MCPlans
    MaxChanges = 2

SYMMETRY MCSymmetry

INVARIANTS
    DefinitionsStayAsRegistered
    RegisteredAdapterOwnsItsKeys
    SelectedWritesAreRecoverable
    ListingIsTrue

PROPERTY ImplementsFrozenCatalog
