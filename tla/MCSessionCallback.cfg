SPECIFICATION Spec
CONSTANTS
    Conn = {c1, c2}
    App = {term}
    AsyncApp = {term}
    Window = {w1}
    Caller = {}
    NoConn = NoConn
    NoApp = NoApp
    NoWindow = NoWindow
    MaxConn = 0
    StashTtl = TRUE
    MaxOut = 1
INVARIANT CallbackTargetExists
VIEW CrashView
CHECK_DEADLOCK FALSE
