\* One address and the punch.
SPECIFICATION FairSpec
CONSTANTS
    a1 = a1
    Addresses <- MCAddresses
    Answers <- MCAnswers
    MaxAttempts = 1
    MaxDials = 3
    MaxProbes = 4
    MaxEvents = 2
INVARIANT NotStranded
PROPERTY  Recovers
CHECK_DEADLOCK FALSE
