CONSTANTS
    Messages <- MCPiggybacked
    Endpoints <- MCEndpoints
    IpLen <- MCShortIp
    Port <- MCPort
SPECIFICATION Spec
INVARIANT RewriteMatchesSpec
CHECK_DEADLOCK FALSE
