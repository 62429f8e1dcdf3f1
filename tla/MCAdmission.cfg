SPECIFICATION Spec
CONSTANTS
  s1 = s1
  s2 = s2
  s3 = s3
  Slots = {s1, s2, s3}
  Workloads <- MCWorkloads
  None = None
  Malformed = Malformed
  Ips <- MCIps
  Cost = 3
  Rate = 1
  Burst = 3
  MaxAge = 1
  MaxReal = 3
  Steps = {1}
  MaxStepped = 1
  CorsOrigin = None
  AnyOrigin = FALSE
  AllowedOrigins <- Listed
  AllowedHosts <- Listed
  AllowAllHosts = FALSE
  TrustProxy = FALSE
  SafeToolsCsv <- MCOverridesSafe
  UnsafeToolsCsv <- MCOverridesUnsafe
  LocalFallbackMethods <- Fallbacks
  LogViewerEnabled = TRUE
  EnvProject = FALSE
  Ttl = 1
  MaxRuns = 2
INVARIANTS
  TypeOK
  BurstBounded
  OnlyTheTrustedAreServed
  EveryIdIsEchoed
  VerdictIsConservative
  EveryCallCountsOnce
PROPERTY GcloudIsShared
CHECK_DEADLOCK FALSE
