CONSTANTS
    MaxEndpoints <- MCMaxEndpoints
    MaxInUse <- MCMaxInUse
SPECIFICATION Spec
INVARIANT ScanFollowsCyclicOrder
