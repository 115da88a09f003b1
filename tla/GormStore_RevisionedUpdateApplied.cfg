\* Expected to be violated: see PROJECT.json findings.
CONSTANTS
    c1 = c1  c2 = c2  c3 = c3  k1 = k1  k2 = k2  v1 = v1  v2 = v2
    Absent = Absent  NoRev = NoRev  NoVal = NoVal
    Vals <- MCVals
    MaxRev = 3
    RevColumn = TRUE
    Clients <- MCClients
    Keys <- MCKeys1
    MaxOps = 4
    AutoTimestamp = FALSE
SPECIFICATION Spec
INVARIANT RevisionedUpdateApplied
SYMMETRY ClientSymmetry
CHECK_DEADLOCK FALSE
