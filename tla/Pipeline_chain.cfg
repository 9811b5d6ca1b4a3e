\* Three threads, two databufs of three blocks, more items than the blocks hold;
\* a stopped or killed process is restarted once.
CONSTANTS
    NStage  = 3
    NBlock  = 3
    MaxItem = 5
    MaxBoot = 1
SPECIFICATION FairSpec
INVARIANTS TypeOK ExclusiveBlocks FilledWindow
PROPERTIES FilledUntouched InOrder DatabufsAreFifos Delivered
\* After MaxBoot restarts a stopped process stays stopped.
CHECK_DEADLOCK FALSE
