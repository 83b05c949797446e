\* Two processes, three starts, one browser with two tabs and two clients.
SPECIFICATION FairSpec
CONSTANTS
  Process = {p1, p2}
  SeedOnStartup = TRUE
  Deployments <- MCDeployments
  User = {ada, carl}
  Client = {t1, t2, c1, c2}
  Tab = {t1, t2}
  Ttl = 2
  ResetTtl = 1
  Never = Never
  NoToken = NoToken
  MaxTime = 2
INVARIANTS
  TypeOK
  SchemaIsRevision
  SeedIsWhole
  ServesPrepared
  LogoutHolds
  SessionsEndForAReason
  CookieFollowsLastAnswer
PROPERTIES
  BootsSettle
