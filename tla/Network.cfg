SPECIFICATION Spec
CONSTANTS
    Conns = {c1}
    Msgs = {m1, m2}
    None = None
    Kinds = {"game", "login", "admin"}
    MaxCount = 9
    MaxReads = 2
INVARIANTS NothingUsedIsDeleted NoLockCycle
PROPERTIES LastWordsAreSent OnlyFullBuffersAreOvertaken ClosingEnds
CHECK_DEADLOCK FALSE
