SPECIFICATION HealerSpec
CONSTANTS
  Healers = {h1, h2}
  Shards = {s1, s2}
  Domains = {d1, d2}
  LocalDomain = d1
  Home <- OneLocal
  DataShards = 1
  RepairBelow = 2
  MaxRepairsPerCycle = 1
  MaxRetries = 2
  Reports = {"Lost"}
  MaxFaults = 1
  MaxJobs = 2
CHECK_DEADLOCK FALSE
PROPERTY HealthyIsAccessible
