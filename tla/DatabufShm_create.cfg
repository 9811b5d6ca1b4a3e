\* Three creators that may ask for different sizes, a null_output_thread, a cleaner;
\* somebody else has the semaphore set with the id 0.
CONSTANTS
    p1 = p1
    p2 = p2
    p3 = p3
    u1 = u1
    k1 = k1
    None = None
    Zero = Zero
    Error = Error
    Creator = {p1, p2, p3}
    User = {u1}
    Cleaner = {k1}
    Mortal = {p1, p2, p3, u1, k1}
    NBlocks = {1, 2}
    JustBooted = FALSE
    ForeignZero = TRUE
SPECIFICATION Spec
INVARIANTS TypeOK SizesAgree EnoughSemaphores AttachedReady SetsNotShared
SYMMETRY CreatorSymmetry
\* Every process ends.
CHECK_DEADLOCK FALSE
