CONSTANTS
    Tasks = {t1}
    Payloads = {p1}
    Calls = {c1, c2}
    Ids = {r1, r2}
    Operations = {"submit"}
    Capacity = 2
    None = None
SPECIFICATION Spec
INVARIANT
    WithinCapacity
