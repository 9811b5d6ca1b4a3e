\* Four records for two keywords, COMMENT lines and END: the buffer gets full.
CONSTANTS
    N = 4
    Key = {"INSTANCE", "A"}
    EndLike = {"A"}
    Val = {"1", "long"}
    Long = {"long"}
    MaxClean = 1
SPECIFICATION Spec
INVARIANTS TypeOK EndKept OthersUntouched NamesUnique
PROPERTIES IsMap
\* A lock that is not replaced again stays held.
CHECK_DEADLOCK FALSE
