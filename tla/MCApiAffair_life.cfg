\* One affair; keys change, the process dies once. Only the watchdog is fair.
SPECIFICATION WatchdogSpec
CONSTANTS
  a1 = a1
  t1 = t1
  t2 = t2
  key1 = key1
  comment = comment
  key2 = key2
  key_secret = key_secret
  system_status = system_status
  elsewhere = elsewhere
  Affairs = {a1}
  Tokens = {key1, key2, key_secret}
  NoToken = NoToken
  Tenants = {t1, t2, comment}
  NoTenant = NoTenant
  Lines <- SmallLines
  FirstPart <- SmallFirstPart
  Endings <- SmallEndings
  KeyFiles <- ChangingKeys
  Paths = {system_status, elsewhere}
  StatusPath = system_status
  Timeout = 1
  MaxCrashes = 1
CHECK_DEADLOCK FALSE
INVARIANTS
  TypeOK
  OkOnlyIfAdmitted
  OneAnswerUnlessReaped
PROPERTIES
  LifecycleKept
  Settles
  EveryAffairAnswered
