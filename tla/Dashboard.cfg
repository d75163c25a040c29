SPECIFICATION DashboardFairSpec
CONSTANTS
  a1 = a1
  a2 = a2
  a3 = a3
  d1 = d1
  d2 = d2
  p1 = p1
  k1 = k1
  m1 = m1
  m2 = m2
  Machine = {m1, m2, noname}
  AgentConn = {a1, a2, a3}
  DashConn = {d1, d2}
  PushConn = {p1}
  CtlConn = {k1}
  Data = {x}
  None = None
  EmptyName = noname
  MaxCommands = 1
INVARIANTS RegistryNamesServingHandler LostOnlyToNamesake 
PROPERTY NothingHangs
CHECK_DEADLOCK FALSE
