SPECIFICATION FairSpec
CONSTANTS
    a = a
    b = b
    s1 = s1
    Bindings = {a, b}
    Schemas = {s1}
    SchemaOf <- MCSchemaOf
    Waits = {a}
    Starts <- MCStarts
PROPERTIES LocksSettle ResourceIsServed DeletionsFinish HeirsKeepInstances
CHECK_DEADLOCK FALSE
