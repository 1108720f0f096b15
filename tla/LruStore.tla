------------------------------ MODULE LruStore ------------------------------
(***************************************************************************)
(* The OrderedDict of cache.py, as the sequence of its keys from the least *)
(* to the most recently used.  The values are kept by TTLCache.            *)
(***************************************************************************)
EXTENDS Integers, Sequences, SequencesExt

CONSTANTS
    Keys,      \* cache keys, each one path with its sorted parameters
    MaxSize    \* max_size

ASSUME MaxSizeAssumption == MaxSize \in Nat \ {0}

\* pop(key, None).  A key has one position at most.
Drop(s, k) ==
    LET at == {i \in DOMAIN s : s[i] = k}
    IN  IF at = {} THEN s ELSE RemoveAt(s, CHOOSE i \in at : TRUE)

\* move_to_end that leaves the key where it was.
TouchInPlace(s, k) == IF Contains(s, k) THEN s ELSE Append(s, k)

\* move_to_end(key), and where s[key] = ... of a new key puts it
Touch(s, k) == Append(Drop(s, k), k)

\* Slips in the eviction loop: the newest entries go, the loop runs before the
\* new entry is in.
EvictNewest(s) == IF Len(s) > MaxSize THEN SubSeq(s, 1, MaxSize) ELSE s
EvictOneShort(s) == IF Len(s) > MaxSize + 1 THEN Tail(s) ELSE s

\* while len(store) > max_size: popitem(last=False)
Evict(s) == IF Len(s) > MaxSize THEN SubSeq(s, Len(s) - MaxSize + 1, Len(s)) ELSE s

Insert(s, k) == Evict(Touch(s, k))
============================================================================
