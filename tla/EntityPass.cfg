SPECIFICATION Spec
CONSTANTS
    Entities = {e1, e2, e3}
    Tags = {t1}
    Null = Null
INVARIANT EveryLiveEntityBeats
