CONSTANTS
    Release <- Versions
    Shipped <- FirstVersion
    MaxStarts = 2
    MaxChecks = 2
    MaxErrors = 1
SPECIFICATION FairSpec
INVARIANTS PromiseKept StartsClean
PROPERTIES OnlyForward ComesBack
CHECK_DEADLOCK FALSE
