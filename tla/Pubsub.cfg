SPECIFICATION Spec
CONSTANTS
    Honest = {h}
    Rogue = {r}
    Topics = {"pings", "logs"}
    KeepLast <- KeepLastValue
    NoSource = NoSource
    NoSeq = NoSeq
    MaxTime = 4
INVARIANTS
    TypeOK
    WindowOrder
    WindowNotPoisoned
    NewestAccepted
