\* One failing request.
SPECIFICATION Spec
CONSTANTS
  varied = varied
  plain = plain
  N = 3
  Concurrency = 2
  Packages <- MCPackages
  PackageOf <- MCPackageOf
  KnownFacts <- OneFact
  Configs <- OneConfig
  Warm <- MCWarm
  MaxHiccups = 1
INVARIANT HiccupNeverDowngrades
