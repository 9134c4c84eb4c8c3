CONSTANTS
    Keys = {k1}
    Callers = {c1, c2, c3}
    Contexts = {x1, x2, x3}
    NoCtx = NoCtx
    Nobody = Nobody
SPECIFICATION FairSpec
INVARIANTS LiveContextIsCurrent BlockedKeyHasNoLiveRequest LiveRequestsShareContext
PROPERTIES RemovedContextStops EveryLookupReturns ImplementsGate
