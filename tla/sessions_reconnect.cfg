CONSTANTS
    Keys = {k1}
    Conns = {c1, c2}
    Fwds = {f1}
    None = None
SPECIFICATION Spec
PROPERTIES NeverReconnect
CHECK_DEADLOCK FALSE
