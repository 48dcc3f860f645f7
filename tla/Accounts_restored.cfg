SPECIFICATION MCSpec
CONSTANTS
  Machines = {"restores"}
  Subs = {s1}
  Ids = {u1, u2}
  None = None
  Txs = {x1}
  Grants = {"truelayer_connections"}
  Revocable = {"truelayer_connections"}
  CopyLife = 1
  TombstoneLife = 1
  MaxCopies = 2
  MaxRestores = 2
  MaxNow = 2
  Tokens = {t1, t2, t3}
  Requests = {r1, r2}
  NoRow = NoRow
  MaxSessions = 1
  Ttl = 1
  AbsoluteMax = 1
  SampleTables = {"users", "transactions"}
  Columns <- MCColumns
  Targets <- MCTargets
  Backfilled <- MCBackfilled
  Categories = {food, travel}
  Null = Null
  MaxVersion = 3
  Purchases = {p1}
  Tiers = {"household"}
  Workers = {w1}
  Clients = {d1, d2}
  Period = 2
  Grace = 1
  MaxEvents = 3
INVARIANT DeletedStayDeleted
SYMMETRY Symmetry
CHECK_DEADLOCK FALSE
