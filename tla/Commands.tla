------------------------------ MODULE Commands ------------------------------
(***************************************************************************)
(* What the other commands do: tunnels, the pushes of provision secrets    *)
(* and cinc, Slurm, accounts, boot links, the configuration and the names  *)
(* it is made of, ssh, the host key file, the name servers, and exec and   *)
(* copy.  These share no state with one another, so one specification      *)
(* takes them one after another: scene says which of them a behaviour is   *)
(* of, and the registers v1 to v17 are its variables, in the order in      *)
(* which its module declares them; those it does not need stay as they     *)
(* are.                                                                    *)
(***************************************************************************)
EXTENDS Naturals, Sequences, FiniteSets

CONSTANTS
  Scenes,  \* the scenes that are taken
  \* of each component a record with the values of its constants
  OfTunnel, OfPush, OfCinc, OfSlurm, OfAccount, OfBoot, OfConfig, OfCache, OfInventory,
  OfSsh, OfHostKeys, OfSession, OfDns, OfRuns

VARIABLES scene, v1, v2, v3, v4, v5, v6, v7, v8, v9, v10, v11, v12, v13, v14, v15, v16, v17

vars == <<scene, v1, v2, v3, v4, v5, v6, v7, v8, v9, v10, v11, v12, v13, v14, v15, v16, v17>>
Unused == "unused"

Tunnel == INSTANCE Tunnel WITH
  Terminals <- OfTunnel.Terminals, Pids <- OfTunnel.Pids, Uses <- OfTunnel.Uses,
  Crashes <- OfTunnel.Crashes, Spellings <- OfTunnel.Spellings, option <- v1, pc <- v2,
  op <- v3, typed <- v4, lock <- v5, file <- v6, child <- v7, proc <- v8,
  signalled <- v9, late <- v10, left <- v11, crashes <- v12

Push == INSTANCE SecretPush WITH
  Nodes <- OfPush.Nodes, N <- OfPush.N, Limit <- OfPush.Limit, Losses <- OfPush.Losses,
  worker <- v1, script <- v2, session <- v3, at <- v4, arrives <- v5, said <- v6,
  heard <- v7, target <- v8, row <- v9, interrupted <- v10, losses <- v11

Cinc == INSTANCE Cinc WITH
  Nodes <- OfCinc.Nodes, Archives <- OfCinc.Archives, Others <- OfCinc.Others,
  Writes <- OfCinc.Writes, Losses <- OfCinc.Losses, file <- v1, writing <- v2,
  at <- v3, read <- v4, result <- v5, ran <- v6, named <- v7, writes <- v8,
  losses <- v9

Slurm == INSTANCE Slurm WITH
  Nodes <- OfSlurm.Nodes, Words <- OfSlurm.Words, Reads <- OfSlurm.Reads,
  Unlisted <- OfSlurm.Unlisted, Desks <- OfSlurm.Desks, Asked <- OfSlurm.Asked,
  Reasons <- OfSlurm.Reasons, Turns <- OfSlurm.Turns, job <- v1, drained <- v2,
  reason <- v3, maint <- v4, off <- v5, pc <- v6, cmd <- v7, jobs <- v8, result <- v9,
  fresh <- v10, touched <- v11, changed <- v12, lost <- v13, turns <- v14

Account == INSTANCE Accounting WITH
  Clusters <- OfAccount.Clusters, Here <- OfAccount.Here,
  Accounts <- OfAccount.Accounts, Desks <- OfAccount.Desks, Asked <- OfAccount.Asked,
  Losses <- OfAccount.Losses, assoc <- v1, default <- v2, pc <- v3, asked <- v4,
  plan <- v5, result <- v6, by <- v7, losses <- v8

Boot == INSTANCE BootLinks WITH
  Nodes <- OfBoot.Nodes, Machines <- OfBoot.Machines, Worlds <- OfBoot.Worlds,
  Paths <- OfBoot.Paths, Suffix <- OfBoot.Suffix, Desks <- OfBoot.Desks,
  Asked <- OfBoot.Asked, world <- v1, exists <- v2, once <- v3, static <- v4,
  grub <- v5, pc <- v6, cmd <- v7, links <- v8, row <- v9, grants <- v10, kept <- v11,
  armed <- v12, served <- v13

Config == INSTANCE Configuration WITH
  Trees <- OfConfig.Trees, Givens <- OfConfig.Givens, Host <- OfConfig.Host,
  Valid <- OfConfig.Valid, documents <- v1, given <- v2, at <- v3, next <- v4,
  index <- v5, contexts <- v6, current <- v7, writes <- v8, data <- v9, origins <- v10,
  item <- v11

Cache == INSTANCE ConfigCache WITH
  Files <- OfCache.Files, Named <- OfCache.Named, Calls <- OfCache.Calls,
  ClusterOf <- OfCache.ClusterOf, Edits <- OfCache.Edits, disk <- v1, mu <- v2,
  stamps <- v3, bundle <- v4, inventories <- v5, pc <- v6, found <- v7, looked <- v8,
  text <- v9, got <- v10, answer <- v11, was <- v12

Inventory == INSTANCE Machines WITH
  Documents <- OfInventory.Documents, RuleOf <- OfInventory.RuleOf,
  Selections <- OfInventory.Selections, entries <- v1, command <- v2, at <- v3,
  entry <- v4, name <- v5, order <- v6, nodes <- v7, left <- v8, selected <- v9

Ssh == INSTANCE SshSettings WITH
  Processes <- OfSsh.Processes, Settings <- OfSsh.Settings, Hosts <- OfSsh.Hosts,
  IncludedTexts <- OfSsh.IncludedTexts, files <- v1, included <- v2, masters <- v3,
  pc <- v4, settings <- v5, client <- v6, config <- v7, conn <- v8

HostKeys == INSTANCE HostKeys WITH
  Names <- OfHostKeys.Names, Lower <- OfHostKeys.Lower, Text <- OfHostKeys.Text,
  Commands <- OfHostKeys.Commands, Hosts <- OfHostKeys.Hosts,
  Removals <- OfHostKeys.Removals, Files <- OfHostKeys.Files,
  Titles <- OfHostKeys.Titles, Keys <- OfHostKeys.Keys, Lists <- OfHostKeys.Lists,
  MaxRekeys <- OfHostKeys.MaxRekeys, MaxEdits <- OfHostKeys.MaxEdits, file <- v1,
  lock <- v2, offers <- v3, cmd <- v4, last <- v5, rekeys <- v6, edits <- v7

Session == INSTANCE Session WITH
  Timeout <- OfSession.Timeout, Grace <- OfSession.Grace, Reach <- OfSession.Reach,
  Statuses <- OfSession.Statuses, age <- v1, ssh <- v2, code <- v3, lost <- v4,
  quiet <- v5, told <- v6, wait <- v7, expired <- v8, held <- v9, long <- v10,
  remote <- v11, born <- v12, status <- v13, result <- v14, interrupted <- v15

Dns == INSTANCE Dns WITH
  Names <- OfDns.Names, Zones <- OfDns.Zones, Servers <- OfDns.Servers,
  Limit <- OfDns.Limit, maxCNAMEs <- OfDns.maxCNAMEs, Large <- OfDns.Large,
  Turns <- OfDns.Turns, verb <- v1, zone <- v2, server <- v3, silent <- v4,
  phase <- v5, pc <- v6, todo <- v7, order <- v8, missing <- v9, chain <- v10,
  addresses <- v11, answer <- v12, interrupted <- v13, turns <- v14, was <- v15,
  timeouts <- v16, heard <- v17

Runs == INSTANCE NodeRuns WITH
  Nodes <- OfRuns.Nodes, Targets <- OfRuns.Targets, HostOf <- OfRuns.HostOf,
  Protected <- OfRuns.Protected, Given <- OfRuns.Given, Parts <- OfRuns.Parts,
  Outputs <- OfRuns.Outputs, cmd <- v1, at <- v2, taken <- v3, item <- v4,
  context <- v5, offset <- v6, store <- v7, ended <- v8, result <- v9, exit <- v10,
  interrupted <- v11

ASSUME CommandsConstants ==
  /\ Runs!NodeRunsConstants
  /\ Tunnel!TunnelConstants /\ Push!PushConstants /\ Cinc!CincConstants
  /\ Slurm!SlurmConstants /\ Account!AccountingConstants /\ Boot!BootLinksConstants
  /\ Cache!ConfigCacheConstants /\ Inventory!MachinesConstants /\ HostKeys!HostKeysConstants
  /\ Session!SessionConstants /\ Dns!DnsConstants /\ Ssh!SshConstants
  /\ Config!ConfigurationConstants

(***************************************************************************)
(* The scenes.                                                             *)
(***************************************************************************)
Begin ==
  \/ /\ scene = "tunnel" /\ Tunnel!Init
     /\ v13 = Unused /\ v14 = Unused /\ v15 = Unused /\ v16 = Unused /\ v17 = Unused
  \/ /\ scene = "push" /\ Push!Init
     /\ v12 = Unused /\ v13 = Unused /\ v14 = Unused /\ v15 = Unused /\ v16 = Unused
     /\ v17 = Unused
  \/ /\ scene = "cinc" /\ Cinc!Init
     /\ v10 = Unused /\ v11 = Unused /\ v12 = Unused /\ v13 = Unused /\ v14 = Unused
     /\ v15 = Unused /\ v16 = Unused /\ v17 = Unused
  \/ /\ scene = "slurm" /\ Slurm!Init
     /\ v15 = Unused /\ v16 = Unused /\ v17 = Unused
  \/ /\ scene = "account" /\ Account!Init
     /\ v9 = Unused /\ v10 = Unused /\ v11 = Unused /\ v12 = Unused /\ v13 = Unused
     /\ v14 = Unused /\ v15 = Unused /\ v16 = Unused /\ v17 = Unused
  \/ /\ scene = "boot" /\ Boot!Init
     /\ v14 = Unused /\ v15 = Unused /\ v16 = Unused /\ v17 = Unused
  \/ /\ scene = "config" /\ Config!Init
     /\ v12 = Unused /\ v13 = Unused /\ v14 = Unused /\ v15 = Unused
     /\ v16 = Unused /\ v17 = Unused
  \/ /\ scene = "cache" /\ Cache!Init
     /\ v13 = Unused /\ v14 = Unused /\ v15 = Unused /\ v16 = Unused /\ v17 = Unused
  \/ /\ scene = "machines" /\ Inventory!Init
     /\ v10 = Unused /\ v11 = Unused /\ v12 = Unused /\ v13 = Unused /\ v14 = Unused
     /\ v15 = Unused /\ v16 = Unused /\ v17 = Unused
  \/ /\ scene = "ssh" /\ Ssh!Init
     /\ v9 = Unused /\ v10 = Unused /\ v11 = Unused /\ v12 = Unused /\ v13 = Unused
     /\ v14 = Unused /\ v15 = Unused /\ v16 = Unused /\ v17 = Unused
  \/ /\ scene = "host_keys" /\ HostKeys!Init
     /\ v8 = Unused /\ v9 = Unused /\ v10 = Unused /\ v11 = Unused /\ v12 = Unused
     /\ v13 = Unused /\ v14 = Unused /\ v15 = Unused /\ v16 = Unused /\ v17 = Unused
  \/ /\ scene = "session" /\ Session!Init
     /\ v16 = Unused /\ v17 = Unused
  \/ /\ scene = "dns" /\ Dns!Init
  \/ /\ scene = "runs" /\ Runs!Init
     /\ v12 = Unused /\ v13 = Unused /\ v14 = Unused /\ v15 = Unused /\ v16 = Unused
     /\ v17 = Unused

Init == scene \in Scenes /\ Begin

Next ==
  \/ scene = "tunnel" /\ Tunnel!Next /\ UNCHANGED <<scene, v13, v14, v15, v16, v17>>
  \/ scene = "push" /\ Push!Next /\ UNCHANGED <<scene, v12, v13, v14, v15, v16, v17>>
  \/ /\ scene = "cinc" /\ Cinc!Next
     /\ UNCHANGED <<scene, v10, v11, v12, v13, v14, v15, v16, v17>>
  \/ scene = "slurm" /\ Slurm!Next /\ UNCHANGED <<scene, v15, v16, v17>>
  \/ /\ scene = "account" /\ Account!Next
     /\ UNCHANGED <<scene, v9, v10, v11, v12, v13, v14, v15, v16, v17>>
  \/ scene = "boot" /\ Boot!Next /\ UNCHANGED <<scene, v14, v15, v16, v17>>
  \/ /\ scene = "config" /\ Config!Next
     /\ UNCHANGED <<scene, v12, v13, v14, v15, v16, v17>>
  \/ scene = "cache" /\ Cache!Next /\ UNCHANGED <<scene, v13, v14, v15, v16, v17>>
  \/ /\ scene = "machines" /\ Inventory!Next
     /\ UNCHANGED <<scene, v10, v11, v12, v13, v14, v15, v16, v17>>
  \/ /\ scene = "ssh" /\ Ssh!Next
     /\ UNCHANGED <<scene, v9, v10, v11, v12, v13, v14, v15, v16, v17>>
  \/ /\ scene = "host_keys" /\ HostKeys!Next
     /\ UNCHANGED <<scene, v8, v9, v10, v11, v12, v13, v14, v15, v16, v17>>
  \/ scene = "session" /\ Session!Next /\ UNCHANGED <<scene, v16, v17>>
  \/ scene = "dns" /\ Dns!Next /\ UNCHANGED <<scene>>
  \/ scene = "runs" /\ Runs!Next /\ UNCHANGED <<scene, v12, v13, v14, v15, v16, v17>>

Spec == Init /\ [][Next]_vars

(***************************************************************************)
(* Properties.                                                             *)
(***************************************************************************)
\* The values the state of each component can hold.
TypeOK ==
  /\ scene = "tunnel" => Tunnel!TypeOK
  /\ scene = "push" => Push!TypeOK
  /\ scene = "cinc" => Cinc!TypeOK
  /\ scene = "slurm" => Slurm!TypeOK
  /\ scene = "account" => Account!TypeOK
  /\ scene = "boot" => Boot!TypeOK
  /\ scene = "config" => Config!TypeOK
  /\ scene = "cache" => Cache!TypeOK
  /\ scene = "machines" => Inventory!TypeOK
  /\ scene = "ssh" => Ssh!TypeOK
  /\ scene = "host_keys" => HostKeys!TypeOK
  /\ scene = "session" => Session!TypeOK
  /\ scene = "dns" => Dns!TypeOK
  /\ scene = "runs" => Runs!TypeOK

\* A tunnel that is up is one process, which its file names, and no command
\* signals a process that is no tunnel, whatever the terminals type side by
\* side and whichever process dies.  (Start, Stop, running)
TunnelsAreWhole == scene = "tunnel" => Tunnel!TunnelsAreWhole

\* A node reported as provisioned has every file, whole, and a run of cinc
\* uses the archive that was read of the node before it; a node that exec or
\* copy reports as ok has all that was sent to it, and nothing is sent that was
\* read in part or not let through; the exit code is that of the worst node.
\* (pushSecrets, runCinc, RunEach, readAll, copyRunner)
PushesAreTrue ==
  /\ scene = "push" => Push!PushIsTrue /\ Push!ExitIsWorst
  /\ scene = "cinc" => Cinc!RunIsAsRead
  /\ scene = "runs" => Runs!RunsAreTrue

\* Only nodes that were named are changed, whatever Slurm takes their names
\* for; none is powered off under a job the check could see; and what is said
\* after an update that failed is so.  (Drain, Resume, CheckJobs)
NodesAreAsNamed ==
  scene = "slurm" => Slurm!JobsAreSeen /\ Slurm!OnlyNamedChange /\ Slurm!ReadBackIsTrue

\* However two desks come between each other's steps, a user keeps a default
\* account it is associated with, gets the association that was asked for and
\* the default the question showed, and is added to no other cluster.
\* (slurm user add, slurm user default)
AddedAsShown == scene = "account" => Account!AddedAsShown

\* A machine finds a link only when a question named it and was answered, and
\* the links that are there are those the rows report.  (boot set, boot unset,
\* checkBootLinks)
BootIsAsNamed == scene = "boot" => Boot!OnlyNamedBoot /\ Boot!LinksAreAsReported

\* Of the layers the last one that sets a value decides it and is the one that
\* is named, and no document stands in for another; and a call of the server
\* runs with each file as it was at some moment since it came, and, when it is
\* served what another call read, with all of them as they were at one moment.
\* (Load, Effective, Cache)
ConfigIsAsWritten ==
  /\ scene = "config" => Config!LastWriteDecides /\ Config!NoneStandsIn
  /\ scene = "cache" => Cache!CallSeesItsFiles

\* An inventory is what its documents say or is refused, a name selects the
\* machine it is the name of or is refused, never another; and the jump
\* hosts the roles name come to an end, and are those ssh connects to.
\* (FromDocuments, Select, checkJumpCycles, JumpHosts)
NamesAreAsMeant ==
  /\ scene = "machines" => Inventory!InventoryIsAsWritten /\ Inventory!SelectedIsMeant
  /\ scene = "ssh" => Ssh!JumpsEnd

\* A host key is checked as the settings of the own context say, whatever the
\* file of another process, an included file, a role or an open master says.
\* (writeConfig, generateConfig)
TrustIsOwn == scene = "ssh" => Ssh!TrustIsOwn

\* Two administrators who write at the same time lose no entry: what was last
\* written of a host is in the file, and what was removed last is not; and the
\* index of the file finds what a search through it would.  (Modify, Index)
KeysAreAsWritten ==
  scene = "host_keys" => HostKeys!WrittenIsThere /\ HostKeys!IndexIsFile

\* The batches do with many hosts what they would do with one after another.
\* (removeAll, replaceAll)
BatchIsOneByOne == scene = "host_keys" => HostKeys!BatchIsOneByOne

\* What is reported of a remote command is what became of it, and a session
\* ends in its time.  (Run, classify)
SessionIsTrue == scene = "session" => Session!ResultIsTrue /\ Session!EndsInTime

\* What is reported of a name is what the zone holds, and a server that is
\* silent costs a command no more than one timeout for each lookup under way.
\* (query, lookupHost)
AnswersAreTrue == scene = "dns" => Dns!AnswersAreTrue /\ Dns!SilenceCostsOnce

\* A command takes from the host key file only what names the hosts it writes,
\* and a refresh loses no note.  (Remove, Replace)
OnlyNamedGo == [][scene = "host_keys" => HostKeys!TakesOnlyNamed]_vars

\* A key the file revokes for a host is never written as the host's, also when
\* it was revoked while the command scanned or waited.  (refresh, Modify)
RevokedIsNotTrusted == [][scene = "host_keys" => HostKeys!TrustsNoRevoked]_vars

\* "A comment above an entry stays with that entry when the file is sorted"
\* (site/content/docs/guides/access.md:69).
CommentsStay == [][scene = "host_keys" => HostKeys!KeepsComments]_vars

\* "Starting one that is already running is reported rather than producing a
\* second tunnel for the same networks" (tunnel.go:332).
OneTunnelAtATime == scene = "tunnel" => Tunnel!NeverTwoTunnels

\* "refuses one that another node has too in the inventory or in DHCP" (the
\* help of boot set, boot.go): a link for one node arms no other machine.
OnlyNamedBoot == scene = "boot" => Boot!OnlyNamedBoot
=============================================================================
