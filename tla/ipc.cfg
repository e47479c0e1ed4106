SPECIFICATION FairSpec
CONSTANTS
    Clients = {c1}
    Urls = {u1}
    MaxRetries = 2
    Threshold = 3
    Events = {"play", "reAsk", "ogFailed"}
INVARIANTS ProbeIsUnderWay
PROPERTIES NeverBackToOg RequestsEnd NotShutOut
