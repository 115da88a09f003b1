\* Two keys, revisions up to 3, four requests, a chain of two plug-ins that
\* may each refuse, and converter and publisher failures.
CONSTANTS
    h1 = h1
    h2 = h2
    EmptyKey = EmptyKey
    NoRev = NoRev
    NoParam = NoParam
    BadNum = BadNum
    Keys = {1, 2}
    MaxRev = 3
    MaxReqs = 4
    Chain <- MCChain
    Validators <- MCValidators
    Mutators <- MCMutators
    HandlesOps <- MCHandlesOps
    Faults = {"publish", "convert"}
    OffsetParams <- MCOffsets
    LimitParams <- MCLimits
SPECIFICATION Spec
INVARIANT TypeOK StatusFollowsCause
PROPERTY WriteOnlyIfAdmitted ClientErrorHasNoEffect
\* The request budget ends every behaviour; a server with no requests idles.
CHECK_DEADLOCK FALSE
