CONSTANTS
  Scenes = {"boot"}
  OfTunnel <- TunnelValues
  OfPush <- PushValues
  OfCinc <- CincValues
  OfSlurm <- SlurmValues
  OfAccount <- AccountValues
  OfConfig <- ConfigValues
  OfCache <- CacheValues
  OfInventory <- InventoryValues
  OfSsh <- SshValues
  OfHostKeys <- HostKeysValues
  OfSession <- SessionValues
  OfDns <- DnsValues
  OfRuns <- RunsValues
  OfBoot <- SharedBoot
  c1 = c1
  c2 = c2
SYMMETRY CommandSymmetry
SPECIFICATION Spec
INVARIANTS OnlyNamedBoot
CHECK_DEADLOCK FALSE
