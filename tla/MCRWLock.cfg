CONSTANTS
  t1 = t1
  t2 = t2
  t3 = t3
  t4 = t4
  Thread <- FourThreads
SPECIFICATION FairSpec
INVARIANTS NoLostWakeup
PROPERTIES NoReaderOvertakes WriterServed ReaderServed ImplementsSharedExclusive
