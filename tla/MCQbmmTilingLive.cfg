CONSTANT t1 = t1
CONSTANT t2 = t2
CONSTANT m1 = m1
CONSTANT m2 = m2
CONSTANT m3 = m3
CONSTANT m4 = m4
CONSTANT none = none
CONSTANT e0 = e0
CONSTANT e1 = e1
CONSTANT kA = kA
CONSTANT kB = kB
CONSTANT Threads = {t1, t2}
CONSTANT Mains = {m1, m2, m3, m4}
CONSTANT Extras = {e0, e1}
CONSTANT Default = e0
CONSTANT NoMain = none
CONSTANT Contexts <- AllContexts
CONSTANT NotBasic <- Batched
CONSTANT NoTiling <- Untilable
CONSTANT UbQuant <- Bf16
CONSTANT Pads = {0, 1}
CONSTANT KeyOf <- Hash
CONSTANT Cap = 1
SPECIFICATION FairSpec
INVARIANT TypeOK
PROPERTY CallsReturn
