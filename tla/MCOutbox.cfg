SPECIFICATION FairSpec
CONSTANTS
  i1 = i1
  i2 = i2
  Instance <- TwoInstances
  Mail <- TwoMails
  MaxAttempts = 2
  SweepLimit = 1
INVARIANTS TypeOK TokenWhilePending SentTwiceForAReason SettledForAReason
PROPERTIES StartsUp SweepsSettle
