SPECIFICATION Spec
CONSTANTS
  n1 = n1
  n2 = n2
  First = n1
  AINations = {n1}
  Nations = {n1, n2}
  g1 = g1
  Generals = {g1}
  t1 = t1
  Troops = {t1}
  s1 = s1
  Ships = {s1}
  p1 = p1
  Places = {p1}
  settle = settle
  camp = camp
  SeaActions = {settle, camp}
  SEA_ACTION_BUILD_CAMP = camp
  Owner <- AllOfFirst
  STD_ACTION_RETRY_COUNT = 2
  RetryWait = 1
  Overdue = 1
  SessionLimit = 3
  MaxInstances = 2
  MaxActions = 2
  MaxId = 5
  None = None
INVARIANTS
  CountsInOrder
  TypeOK
  NeverStuck
  ReportersExist
PROPERTIES
  PassSkipsNothing
  UnitsKeepTheirAction
CHECK_DEADLOCK FALSE
