SPECIFICATION FairSpec
CONSTANTS
  h1 = h1
  h2 = h2
  t1 = t1
  t2 = t2
  m1 = m1
  m2 = m2
  Hosts = {h1, h2}
  Tasks = {t1}
  Msgs = {m1}
  HostOf <- OneTask
  Task <- ToOneTask
  Sender <- FromH2
  MaxAttempts = 1
  AttemptQuota = 1
  SenderQuota = 1
  ActiveSenderQuota = 1
  ActiveTargetQuota = 1
  NoMsg = NoMsg
  NoRow = NoRow
PROPERTIES
  ReceiptAlwaysDrains
