CONSTANTS
    a1 = a1
    a2 = a2
    g1 = g1
    g2 = g2
    Admission = {a1, a2}
    GitCommand = {g1, g2}
    LockCount = 3
    ForcedRemovals = 1
    Absent = Absent
    Orphan = Orphan
SPECIFICATION Spec
INVARIANTS
    BindingHolds
    GuardExclusive
    
PROPERTIES
    ForeignLocksUntouched
SYMMETRY Symmetry
