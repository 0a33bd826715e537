SPECIFICATION Spec
CONSTANTS
    Targets = {t1}
    Runs = {r1, r2}
    Contents = {c1, c2}
    Artifacts = {a1}
    NoRun = NoRun
    ChangedOnly = TRUE
SYMMETRY Symmetry
CHECK_DEADLOCK FALSE
PROPERTIES
    CancelledStaysSkipped
