CONSTANTS
    Ids = {i1, i2}
    Vals = {v1, v2}
    Pins = {p1, p2}
    Salts = {s1}
    Tasks = {t1, t2}
    None = None
    Asking = Asking
    Absent = Absent
    Broken = Broken
    Junk = Junk
    Plain = Plain
SPECIFICATION Spec
INVARIANTS TypeOK
PROPERTIES KeepsPromise NoSilentUnseal BrokenNeverClobbered
