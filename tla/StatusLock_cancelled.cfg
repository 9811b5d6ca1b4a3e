\* Two threads, one of which is cancelled, and a tool.
CONSTANTS
    t1 = t1
    t2 = t2
    c1 = c1
    Thread = {t1, t2}
    Client = {c1}
    Cancellable = {t1}
    Mortal = {}
SPECIFICATION Spec
INVARIANT MutualExclusion
