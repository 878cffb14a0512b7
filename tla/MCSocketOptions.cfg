\* u_short and int are 2 and 4 bits wide.
SPECIFICATION Spec
CONSTANTS
    Hosts <- HostsDef
    Arguments <- ArgumentsDef
    IPv4 = {"ip1"}
    IPv6 = {"ip6"}
    Stale = {"", "stale"}
    USHRT = 4
    INT_MAX = 7
    MaxCalls = 3
INVARIANTS
    InForce
