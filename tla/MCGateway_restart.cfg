\* A handler and the heartbeat, with a crash and a restart; scripts end.
SPECIFICATION FairSpec
CONSTANTS
  r1 = r1
  r2 = r2
  t1 = t1
  a1 = a1
  k1 = k1
  Requests = {r1}
  Tenants = {t1}
  Apps = {a1}
  Keys = {k1}
  NoKey = NoKey
  ShortPath = ShortPath
  Configs <- TwoConfigs
  Heartbeat = Heartbeat
  Nobody = Nobody
  MaxLives = 2
  MaxBeats = 1
CHECK_DEADLOCK FALSE
INVARIANTS
  TypeOK
  DamageBounded
PROPERTIES
  ImplementsAuditTrail
  EveryRequestAnswered
  HeartbeatReturns
