CONSTANTS
    Programs <- MCPrograms
    Width = 2
    None = None
SPECIFICATION FairSpec
INVARIANTS StaysInBounds Aligned Delivered
PROPERTIES AllReturn
\* Programs end.
CHECK_DEADLOCK FALSE
