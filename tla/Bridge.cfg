SPECIFICATION QuerySpec
INVARIANTS Allowed NoneTwice
PROPERTIES CallersServed QueryRecovers
CONSTANTS
  a = a  b = b  c = c  https = https
  g1 = g1  g2 = g2  q1 = q1  q2 = q2  local = local
  Callers = {g1, g2, q1, q2}  Registries = {a, b, c, https}  Pri <- PriMC
  Suits <- SuitsMC  Mode = {a, b, c}  Priorities = {99, 100}
  NoHref = NoHref  LocalQuery = local
  Clients = {q1, q2}  Working = {b, c}  LinkLocal = {a}
  MaxIter = 1  MaxSubscriptions = 1
  MaxChanges = 1  MaxDowns = 1
