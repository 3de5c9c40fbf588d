CONSTANT Threads = {t1, t2, t3, t4, t5}
SPECIFICATION FairSpec
INVARIANT TypeOK
INVARIANT Exclusion
INVARIANT CountersAgree
INVARIANT NoStrandedWriter
INVARIANT NoStrandedReader
PROPERTY ImplementsAbstract
PROPERTY WriterProgress
PROPERTY ReaderProgress
