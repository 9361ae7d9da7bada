\* One host and one key whose host is gone from the list, two attempts that can
\* overlap or follow each other, one quick command; two commands and two events
\* under way are enough for a close and a reopen to meet old news.
CONSTANTS
    Keys = {k1, gone}
    Hosts = {k1}
    Conns = {c1, c2}
    Runs = {q1}
    None = None
    MaxCmds = 2
    MaxEvents = 2
SPECIFICATION Spec
INVARIANTS TypeOK NoTabForgotten CommandOnce
SYMMETRY Symmetry
\* The attempts run out, and then nothing happens.
CHECK_DEADLOCK FALSE
