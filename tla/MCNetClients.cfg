SPECIFICATION NetSpec
CONSTANTS
    MAX_RECONNECT_ATTEMPTS = 10
    MaxPosted = 3
    Request = {r1, r2, r3}
PROPERTIES ReportsInOrder UsesAnswered
CHECK_DEADLOCK FALSE
