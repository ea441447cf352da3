CONSTANTS
    Messages <- MCStressed
    Endpoints <- MCEndpoints
    IpLen <- MCLongIp
    Port <- MCPort
SPECIFICATION Spec
INVARIANT RewriteFitsBuffer
CHECK_DEADLOCK FALSE
