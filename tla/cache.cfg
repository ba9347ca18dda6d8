CONSTANTS
    Keys = {k1}
    Values = {v1}
    Readers = {r1}
    Writers = {w1, w2}
    None = None
    TTLs = {0, 1}
    MaxTime = 4
    RedisCaches <- MCCaches
    RedisNames <- MCNames
    RedisValues = {kept, other}
    Forever = {kept}
    RedisReaders = {rr}
    RedisWriters = {rw}
    CacheOf <- MCCacheOf
    RedisTTLs <- MCTTLs
    MaxTries = 2
    MaxLate = 1
    RedisMaxTime = 3
SYMMETRY Symmetry
SPECIFICATION CacheSpec
INVARIANT CacheTypeOK
PROPERTIES Implements RedisImplements
