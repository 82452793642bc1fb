SPECIFICATION Spec
CONSTANTS
    Blank = Blank
    Bodies <- MCBodies
INVARIANTS TypeOK EndsOnce EventsInOrder AnswerWhole CallsAssembled
PROPERTIES RequestEnds RequestSpec
CHECK_DEADLOCK FALSE
