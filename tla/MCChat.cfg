SPECIFICATION Spec
CONSTANTS
    MaxAgent = 2
    MaxInput = 2
    MaxLoop = 1
    MaxTool = 1
    MaxThread = 3
    Targets = {0, 2}
INVARIANTS MessagesKept WorkGoesOn
 
VIEW MessageView
CHECK_DEADLOCK FALSE
