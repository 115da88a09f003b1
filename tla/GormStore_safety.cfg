\* Three concurrent callers, one key, revisions enabled: the interleavings
\* of pre-read, conditional write, re-read and Publish.
CONSTANTS
    c1 = c1  c2 = c2  c3 = c3  k1 = k1  k2 = k2  v1 = v1  v2 = v2
    Absent = Absent  NoRev = NoRev  NoVal = NoVal
    Clients <- MCClients
    Keys <- MCKeys1
    Vals <- MCVals
    MaxRev = 3
    MaxOps = 4
    RevColumn = TRUE
    AutoTimestamp = FALSE
SPECIFICATION Spec
INVARIANT TypeOK NoLostUpdate
PROPERTY ImplementsAtomicTable
SYMMETRY ClientSymmetry
\* The operation budget ends every behaviour; an idle store is a legal end.
CHECK_DEADLOCK FALSE
