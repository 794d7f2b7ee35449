SPECIFICATION Spec
SYMMETRY Symmetry
CONSTANTS
    l1 = l1
    l2 = l2
    c1 = c1
    c2 = c2
    a1 = a1
    a2 = a2
    None = None
    Lanes = {l1, l2}
    Callers = {c1, c2}
    Areas = {a1, a2}
    MaxRows = 3
    MaxChanges = 7
    MaxMain = 2
INVARIANTS
    QueueIsSound
PROPERTIES
    EndIsFinal
CHECK_DEADLOCK FALSE
