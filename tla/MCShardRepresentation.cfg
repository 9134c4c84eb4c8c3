CONSTANTS
    Intents = {1, 2}
    MaxWrites = 2
    MaxIntents = 1
    MaxFaults = 1
SPECIFICATION RootSpec
CHECK_DEADLOCK FALSE
PROPERTIES IntentIsKept NeverGoesBack Converges RepresentationConverges
