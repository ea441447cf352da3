CONSTANTS
    MaxEndpoints <- MCFullMaxEndpoints
    MaxInUse <- MCFullMaxInUse
SPECIFICATION Spec
INVARIANT TypeOK
INVARIANT ScanFollowsCyclicOrder
