\* Two handlers in one life of the process.
SPECIFICATION Spec
CONSTANTS
  r1 = r1
  r2 = r2
  t1 = t1
  a1 = a1
  k1 = k1
  Requests = {r1, r2}
  Tenants = {t1}
  Apps = {a1}
  Keys = {k1}
  NoKey = NoKey
  ShortPath = ShortPath
  Configs <- TwoConfigs
  Heartbeat = Heartbeat
  Nobody = Nobody
  MaxLives = 1
  MaxBeats = 0
CHECK_DEADLOCK FALSE
SYMMETRY Symmetry
INVARIANTS
  AuditBeforeExecute
  AnswerMatchesTrail
  ConsistentVerdicts
