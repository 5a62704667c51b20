CONSTANTS
    Reports <- Some
    Framings = {"bare", "nested", "raw"}
    Limits = {0, 9, 14}
    Faults = {"fatal", "malformed", "cut", "fails"}
    MaxRemoteProgress = 2
    MaxPieces = 3
    MaxExtras = 2
SPECIFICATION Spec
INVARIANTS VerdictIsRight NoFalseSuccess RejectionIsExplained LimitExact
CHECK_DEADLOCK FALSE
