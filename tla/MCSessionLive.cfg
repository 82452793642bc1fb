SPECIFICATION FairSpec
CONSTANTS
    Conn = {c1, c2}
    App = {term, game}
    AsyncApp = {term}
    Window = {}
    Caller = {agent}
    NoConn = NoConn
    NoApp = NoApp
    NoWindow = NoWindow
    MaxConn = 1
    StashTtl = FALSE
    MaxOut = 1
 
PROPERTY SlotReleased
CHECK_DEADLOCK FALSE
