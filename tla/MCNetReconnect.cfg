SPECIFICATION NetSpec
CONSTANTS
    MAX_RECONNECT_ATTEMPTS = 10
    MaxPosted = 3
    Request = {r1}
PROPERTY ReconnectsToTheMax
CHECK_DEADLOCK FALSE
