SPECIFICATION Spec
CONSTANTS
    Types = {a, b}
    None = None
    a = a
    b = b
    MaxEntries = 3
    MaxGroups = 3
    MaxDeclared = 2
    MaxDispatches = 2
    MaxOutbox = 1
SYMMETRY TypeSymmetry
INVARIANTS TypeOK WalkIsRegistrationOrder SeesOwnGroupsState SendsAreInViews
PROPERTIES ImplementsFlatRegistry
CHECK_DEADLOCK FALSE
