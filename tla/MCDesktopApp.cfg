SPECIFICATION AppSpec
CONSTANTS
    SIZE = 2
    InARow = 3
    BEAN_COUNT = 3
    DefaultSize = 3
    Dim = {0, 1, 2}
    Value <- MCValue
    MaxMove = 7
    MaxExec = 3
INVARIANTS GroupsBreathe  GameSound  
CHECK_DEADLOCK FALSE
