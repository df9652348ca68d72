\* One dashboard, and one disruption: its connection, the group session or the process.  And two replays
\* of an operator, as far apart as tokens last.
SPECIFICATION ServiceSpec
CONSTANTS
  c1 = c1
  c2 = c2
  c3 = c3
  Clients = {c1, c2, c3}
  Dashboards = {b1}
  Client <- MCClient
  Duration <- MCDuration
  Status <- MCStatus
  Unreadable = {2}
  Capacity = 3
  DefaultLimit = 1
  MAX_ROWS = 2
  Filters <- MCFilters
  MaxResults = 4
  MaxAsks = 2
  MaxDisruptions = 1
  Accounts = {a1, a2}
  Presses = {p1, p2}
  TokenTtl = 2
  JwtTtl = 4
  MaxLatency = 1
  MaxTime = 6
INVARIANTS
  ServiceTypeOK
  FeedIsWindow
  LatencyIsPercentile
  DashboardIsComplete
  RowsMatchFilter
  OperatorIsNotRefused
  ReplayIsClients
PROPERTIES
  MonitorStops
CHECK_DEADLOCK FALSE
