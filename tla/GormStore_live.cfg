\* Two callers on one key under weak fairness of the calls in progress; a
\* Publish may fail after its call's autocommitted write.
CONSTANTS
    c1 = c1  c2 = c2  c3 = c3  k1 = k1  k2 = k2  v1 = v1  v2 = v2
    Absent = Absent  NoRev = NoRev  NoVal = NoVal
    Vals <- MCVals
    MaxRev = 3
    RevColumn = TRUE
    Clients <- MCClients2
    Keys <- MCKeys1
    MaxOps = 4
    AutoTimestamp = TRUE
SPECIFICATION FairSpec
PROPERTY EveryCommitPublished
\* The operation budget ends every behaviour; an idle store is a legal end.
CHECK_DEADLOCK FALSE
