\* Two threads contend and a third one joins them; three values, so that a lost
\* increment cannot be taken for none.
\* With the same constants NobodyStarves is refuted.
CONSTANTS
  t1 = t1 t2 = t2 t3 = t3
  Thread = {t1, t2, t3}
  FullExchange = TRUE
  Modulus = 3
SPECIFICATION FairLockSpec
INVARIANT MutualExclusion
PROPERTIES AtomicSpec LockHandedOn
