\* Three requests, every kind of package, four configurations, one failing request, a signal.
SPECIFICATION Spec
CONSTANTS
  varied = varied
  plain = plain
  N = 3
  Concurrency = 2
  Packages <- MCPackages
  PackageOf <- MCPackageOf
  KnownFacts <- MCKnownFacts
  Configs <- MCConfigs
  Warm <- MCWarm
  MaxHiccups = 1
INVARIANTS TypeOK PoolComplete AllowIsEarned VerdictIsExact
