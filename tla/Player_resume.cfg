SPECIFICATION PlayerSpec
CONSTANTS
    Fields = {f1}
    SwitchLimit = 1
    MaxAnswers = 2
    MaxLosses = 1
    MaxSwitches = 2
PROPERTY ResumesIntact
CHECK_DEADLOCK FALSE
