SPECIFICATION Spec
CONSTANTS
    Conn = {c1, c2}
    App = {term, game}
    AsyncApp = {term}
    Window = {w1}
    Caller = {}
    NoConn = NoConn
    NoApp = NoApp
    NoWindow = NoWindow
    MaxConn = 0
    StashTtl = TRUE
    MaxOut = 1
INVARIANTS TypeOK SingleOwner   WriterRuns OutputToOwner
PROPERTIES   OwnershipSpec
SYMMETRY ConnSymmetry
VIEW CrashView
CHECK_DEADLOCK FALSE
