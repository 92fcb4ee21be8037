SPECIFICATION FairSpec
CONSTANTS
    Secs <- ThreeSecs
    IntMax = 9
    MaxId = 4
INVARIANTS TypeOK NeverEarly Armed
PROPERTIES ListStableInRing ServiceSpec EveryAlarmEnds
