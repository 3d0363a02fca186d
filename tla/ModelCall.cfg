\* Two processes, one of two threads, one slot, two mishaps; two of the three
\* executions have too little budget left to send anything.
CONSTANTS
    a = a
    b = b
    c3 = c3
    pa = pa
    pb = pb
    none = none
    Callers = {a, b, c3}
    Processes = {pa, pb}
    ProcessOf <- MCProcessOf
    MaxConcurrent = 1
    MaxMishaps = 2
    Free = none
    Limit <- MCLimit
    Estimate = 1
    MaxPrompt = 2
    Tries = 2
    RetryReadTimeouts = FALSE
    MaxCalls <- MCCalls
CHECK_DEADLOCK FALSE
SPECIFICATION ModelCallFairSpec
INVARIANT LedgerIsSound
INVARIANT OnePaidRequest
INVARIANT SlotIsKept
PROPERTY CallsEnd
