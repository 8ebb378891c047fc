CONSTANTS
  Scenes = {"tunnel"}
  OfTunnel <- TunnelValues
  OfPush <- PushValues
  OfCinc <- CincValues
  OfSlurm <- SlurmValues
  OfAccount <- AccountValues
  OfConfig <- ConfigValues
  OfCache <- CacheValues
  OfInventory <- InventoryValues
  OfSsh <- SshValues
  OfHostKeys <- HostKeysValues
  OfSession <- SessionValues
  OfDns <- DnsValues
  OfRuns <- RunsValues
  OfBoot <- QuietBoot
  c1 = c1
  c2 = c2
SYMMETRY CommandSymmetry
SPECIFICATION Spec
INVARIANTS OneTunnelAtATime
CHECK_DEADLOCK FALSE
