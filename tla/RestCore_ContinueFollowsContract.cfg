\* A List with a negative offset: the handler sets Continue from the
\* offset it parsed, before GetList normalises it.
CONSTANTS
    h1 = h1
    h2 = h2
    EmptyKey = EmptyKey
    NoRev = NoRev
    NoParam = NoParam
    BadNum = BadNum
    Keys = {1, 2}
    MaxRev = 3
    MaxReqs = 4
    Chain <- MCChain
    Validators <- MCValidators
    Mutators <- MCMutators
    HandlesOps <- MCHandlesOps
    Faults = {"publish", "convert"}
    OffsetParams <- MCOffsets
    LimitParams <- MCLimits
SPECIFICATION Spec
INVARIANT ContinueFollowsContract
\* The request budget ends every behaviour; a server with no requests idles.
CHECK_DEADLOCK FALSE
