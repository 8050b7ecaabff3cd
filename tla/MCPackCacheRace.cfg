CONSTANTS
    Scanners = {s1, s2}
    MaxVersion = 2
    Truncating = FALSE
SPECIFICATION Spec
SYMMETRY Interchangeable
INVARIANT RenewedIsCorrect
