CONSTANTS
  Threads = {t1, t2, t3, t4}
SPECIFICATION FairSpec
INVARIANTS NoLostWakeup
PROPERTIES ImplementsReadWriteLock QueuedReaderEnters SomeWriterEnters
