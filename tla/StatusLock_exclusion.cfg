\* Two threads, both of which may be cancelled, and a tool that may be killed.
CONSTANTS
    t1 = t1
    t2 = t2
    c1 = c1
    Thread = {t1, t2}
    Client = {c1}
    Cancellable = {t1, t2}
    Mortal = {c1}
SPECIFICATION FairSpec
INVARIANTS TypeOK Exclusive ValueTells
PROPERTIES NoLostRecord NotLeftLocked
\* A tool killed while it holds the lock stops everybody else.
CHECK_DEADLOCK FALSE
