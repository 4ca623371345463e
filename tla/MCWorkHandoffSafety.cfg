CONSTANTS
    Tasks = {t1}
    Payloads = {p1, p2}
    Calls = {c1, c2}
    Ids = {r1, r2}
    Operations = {"submit", "status", "cancel"}
    Capacity = 2
    None = None
SPECIFICATION Spec
SYMMETRY Symmetry
INVARIANTS
    TypeOK
    AcknowledgedIsDurable
    RepliesAreTrue
PROPERTIES
    PublishedIsFinal
    NoEffectAfterReply
