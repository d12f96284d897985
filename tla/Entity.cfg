SPECIFICATION FairSpec
CONSTANTS
    Entities = {e1, e2, e3}
    Tags = {t1, t2}
    Null = Null
INVARIANTS StoreIntact PassExact
PROPERTIES LifecycleKept DeadIsFreed
