\* One command and its connection; the process really ends.
SPECIFICATION FairSpec
CHECK_DEADLOCK FALSE
CONSTANTS
    Enabled <- MCEnabled
    Followed <- MCFollowed
    HalfClosers <- MCHalfClosers
INVARIANTS
    TypeOK
    ClosedAfterCopies
    CutOnlyIfOver
    FailureReported
    NoOrphan
    NobodyHeldUp
    ClosingGoesOn
PROPERTIES
    Terminates
    NoLeak
