SPECIFICATION Spec
CONSTANTS
    Workers = {w1, w2}
    Names = {n1, n2}
    Passwords = {p1, p2}
    NoPassword = NoPassword
    Nobody = Nobody
    NoForm = NoForm
    MaxRows = 2
    MaxStarts = 1
INVARIANT OneRowPerName
SYMMETRY Symmetry
CHECK_DEADLOCK FALSE
