CONSTANTS
    c1 = c1
    c2 = c2
    c3 = c3
    c4 = c4
    shared = shared
    other = other
    NoCall = NoCall
    Calls <- MCCalls
    Keys <- MCKeys
    KeyOf <- MCKeyOf
SPECIFICATION Spec
INVARIANTS MutualExclusion MapHoldsOnlyBusyRepos
PROPERTIES ImplementsFifoMutex
CHECK_DEADLOCK FALSE
