SPECIFICATION Spec
CONSTANTS
    Yarn = {y1, y2}
    Nobody = Nobody
INVARIANTS
    NobodyMeansUnlocked
CHECK_DEADLOCK FALSE
