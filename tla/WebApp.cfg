SPECIFICATION Spec
CONSTANTS
    None = None
    Attempts = {a1, a2}
    Handlers = {h1}
INVARIANTS TypeOK OneNetwork StatusIsHonest
PROPERTIES StartEnds StoppedIsForgotten
