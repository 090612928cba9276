\* A machine on which the exchange is an acquire barrier only.
CONSTANTS
  t1 = t1 t2 = t2 t3 = t3
  Thread = {t1, t2}
  FullExchange = FALSE
  Modulus = 3
SPECIFICATION FairLockSpec
PROPERTY AtomicSpec
