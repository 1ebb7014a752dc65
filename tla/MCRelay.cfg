SPECIFICATION FairSpec
CONSTANTS
  h1 = h1
  h2 = h2
  t1 = t1
  t2 = t2
  m1 = m1
  m2 = m2
  Hosts = {h1, h2}
  Tasks = {t1}
  Msgs = {m1, m2}
  HostOf <- OneTask
  Task <- ToOneTask
  Sender <- FromH2
  MaxAttempts = 3
  AttemptQuota = 2
  SenderQuota = 2
  ActiveSenderQuota = 2
  ActiveTargetQuota = 2
  NoMsg = NoMsg
  NoRow = NoRow
INVARIANT AtMostOnce
INVARIANT NoStranding
PROPERTY RevocationBars
PROPERTY ImplementsMailbox
PROPERTY QueuedIsClaimed
PROPERTY LeaseResolves
PROPERTY ReceiptDrains
