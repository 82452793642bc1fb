SPECIFICATION Spec
CONSTANTS
    MaxInput = 2
    MaxCall = 2
    MaxState = 1
INVARIANTS TypeOK Serialised CallsAnswered
  
VIEW QuietView
CHECK_DEADLOCK FALSE
