\* Two creators and a cleaner.
CONSTANTS
    p1 = p1
    p2 = p2
    u1 = u1
    k1 = k1
    None = None
    Zero = Zero
    Error = Error
    Creator = {p1, p2}
    User = {u1}
    Cleaner = {k1}
    Mortal = {}
    NBlocks = {1, 2}
    JustBooted = FALSE
    ForeignZero = FALSE
SPECIFICATION Spec
PROPERTIES Deleted
\* Every process ends.
CHECK_DEADLOCK FALSE
