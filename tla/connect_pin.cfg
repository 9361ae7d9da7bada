SPECIFICATION Spec
CONSTANTS
    c1 = c1
    c2 = c2
    n1 = n1
    n2 = n2
    Nodes = {n1, n2}
    HostKeys = {k1}
    Secrets = {s1}
    ByPassword = {n2}
    Conns = {c1, c2}
    Route <- MCRoute
    None = None
    Torn = Torn
INVARIANT TrustedIsOnDisk
