SPECIFICATION FairSpec
CONSTANTS
  Threads = {t1, t2, t3}
  MaxFailures = 2
INVARIANTS CompletionPublishes RetrySeesFailures
PROPERTIES NoRunAfterSuccess CallsReturn ImplementsPromise
