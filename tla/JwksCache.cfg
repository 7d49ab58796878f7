CONSTANTS
    Verifiers = {g1}
    Main = main
    Refresher = refresher
    Kids <- MCKids
    KeySets <- MCKeySets
    TTL = 2
    Refresh = 2
    FetchBound = 2
SPECIFICATION FairSpec
INVARIANTS CacheIsRecent StableKeyIsTrusted
PROPERTIES RegressionNeedsOverlap CacheCatchesUp
