\* A plugin with an input and an output databuf, and null_output_thread.
CONSTANTS
    NThread = 2
    HasIbuf = {1}
    HasObuf = {1}
    NullThread = {2}
SPECIFICATION Spec
INVARIANT ExitStatusStored
\* The process ends.
CHECK_DEADLOCK FALSE
