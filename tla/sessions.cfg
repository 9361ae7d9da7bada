\* Two keys, two attempts, one forward: two connects can race for one key, one
\* can follow the other, and each teardown has a forward of its own or of the
\* other key to stop or to leave alone.
CONSTANTS
    Keys = {k1, k2}
    Conns = {c1, c2}
    Fwds = {f1}
    None = None
SPECIFICATION FairSpec
INVARIANTS TypeOK ForwardsHaveSession SessionsHaveConnection
PROPERTIES OrphanForwardsReaped DisconnectReleases ImplementsLife
\* The pools of attempts and requests run out, and then nothing happens.
CHECK_DEADLOCK FALSE
