\* Two outputs cut in every way, and two pieces of input the terminal may not take.
SPECIFICATION Spec
CONSTANTS
    Outputs <- SomeOutputs
    MaxOut = 2
    MaxTyped = 3
    MaxTty = 1
    MaxEvents = 1
INVARIANT SameParse InputInOrder NothingForgotten
CHECK_DEADLOCK FALSE
