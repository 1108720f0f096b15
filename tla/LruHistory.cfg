\* One key more than fits, so that every store may evict.
CONSTANTS
    Keys = {account, zones, detail, other}
    MaxSize = 3
SPECIFICATION Spec
INVARIANTS
    Bounded
    OrderedByUse
PROPERTY
    EvictionIsLru
