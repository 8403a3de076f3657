\* One command after the other.
SPECIFICATION Spec
CONSTANTS
    Runners = {r1, r2}
    Cases = {c1, c2}
SYMMETRY BothSymmetries
INVARIANTS
    EveryCaseReadable
