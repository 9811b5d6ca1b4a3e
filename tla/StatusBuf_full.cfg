\* Two records: INSTANCE, and END in the last one.
CONSTANTS
    N = 2
    Key = {"INSTANCE", "A"}
    EndLike = {"A"}
    Val = {"1", "long"}
    Long = {"long"}
    MaxClean = 1
SPECIFICATION Spec
INVARIANT StaysInside
\* A lock that is not replaced again stays held.
CHECK_DEADLOCK FALSE
