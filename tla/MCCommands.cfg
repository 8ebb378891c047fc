CONSTANTS
  Scenes = {"tunnel", "push", "cinc", "slurm", "account", "boot", "config", "cache",
    "machines", "ssh", "host_keys", "session", "dns", "runs"}
  OfTunnel <- TunnelValues
  OfPush <- PushValues
  OfCinc <- CincValues
  OfSlurm <- SlurmValues
  OfAccount <- AccountValues
  OfConfig <- ConfigValues
  OfCache <- CacheValues
  OfInventory <- InventoryValues
  OfSsh <- SshValues
  OfHostKeys <- HostKeysValues
  OfSession <- SessionValues
  OfDns <- DnsValues
  OfRuns <- RunsValues
  OfBoot <- QuietBoot
  c1 = c1
  c2 = c2
SYMMETRY CommandSymmetry
SPECIFICATION Spec
INVARIANTS TypeOK TunnelsAreWhole PushesAreTrue NodesAreAsNamed AddedAsShown BootIsAsNamed
  ConfigIsAsWritten NamesAreAsMeant TrustIsOwn KeysAreAsWritten BatchIsOneByOne
  SessionIsTrue AnswersAreTrue
PROPERTIES OnlyNamedGo RevokedIsNotTrusted
CHECK_DEADLOCK FALSE
