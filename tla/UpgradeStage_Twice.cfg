SPECIFICATION Spec
CONSTANT MaxMishaps = 1
CHECK_DEADLOCK FALSE
INVARIANTS
    TwiceDoesNoHarm
