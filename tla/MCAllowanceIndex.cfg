SPECIFICATION Spec
CONSTANTS
    Creates = {n1, n2}
    Revokes = {v1, v2}
    Gets = {g1}
    Initial = Initial
    Nobody = Nobody
    MaxRules = 3
SYMMETRY CallSymmetry
INVARIANTS
    RowNamesItsRule
    RevokedIsRemoved
    RemovedIsNotUsable
CHECK_DEADLOCK FALSE
