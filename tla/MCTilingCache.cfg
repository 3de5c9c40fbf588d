CONSTANT i1 = i1
CONSTANT i2 = i2
CONSTANT i3 = i3
CONSTANT k1 = k1
CONSTANT k2 = k2
CONSTANT Threads = {t1, t2, t3}
CONSTANT Inputs = {i1, i2, i3}
CONSTANT Keys = {k1, k2}
CONSTANT Values = {v1}
CONSTANT KeyOf <- CollidingHash
CONSTANT Ops = {"Get", "Add", "Replace"}
CONSTANT Cap = 2
SPECIFICATION FairSpec
INVARIANT TypeOK
INVARIANT NoMapRace
INVARIANT HitMatchesInput
INVARIANT SizeCountsEntries
PROPERTY ImplementsAtomicCache
PROPERTY CallsReturn
