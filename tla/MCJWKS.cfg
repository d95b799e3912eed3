SPECIFICATION FairSpec
CONSTANTS
    k1 = k1
    k2 = k2
    k3 = k3
    r1 = r1
    r2 = r2
    bg = bg
    Kids = {k1, k2, k3}
    Unusable = {k3}
    Requests = {r1, r2}
    Refresher = bg
    MaxRotations = 1
INVARIANT CacheIsPublishedSet
PROPERTIES FoundUnlessOverlapped CacheCatchesUp RequestsDecided
