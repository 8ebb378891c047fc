# Specifications of clusterctl

clusterctl administers a cluster from an administrator's machine: it boots,
resets and reinstalls machines through their service processors, writes boot
links on a PXE host, runs commands over ssh on many hosts at once, and lets an
agent plan such changes through an MCP server. Nothing of it runs on the
cluster; everything it changes there it changes by messages that can be lost,
late, or carried out after the command that sent them has ended. That is what
these modules are about.

Every module models code under `src/`; `PROJECT.json` names, for every
definition, the lines it stands for. Check a run with

    tlc -workers 2 -config MCReinstall.cfg MCReinstall.tla

and the proofs of a module with `tlapm ReinstallProofs.tla`.

The modules are of three kinds: one for each component, with its state, its
actions and its properties; `MC` modules, which give the components small
instances for TLC; and `Proofs` modules, with theorems for every instance.
`SharedReads` and `Commands` take several components one after another, for any
values of their constants: `MCSharedReads` and `MCCommands` give them values, and
the theorems are about the specifications themselves.

- [Inventory](#inventory)
- [The modules](#the-modules)
- [The runs](#the-runs)
- [Fairness](#fairness)
- [What is proved](#what-is-proved)
- [Where the code and its words disagree](#where-the-code-and-its-words-disagree)
- [What is not modelled](#what-is-not-modelled)
- [Plan](#plan)

## Inventory

The components, in the order of how much harm a mistake in them does. "State"
is what outlives a single function call.

| Component | State | Operations | Interacts with | Hard | Correct when |
|---|---|---|---|---|---|
| **Reinstall** `cli/provision.go` | the record of each node (`BootLink`, `BootOnce`, `Reset`); on the cluster, boot links, boot overrides, the machines; the host key file | `run`: links, boot once, host keys, reset; `fail`: clear, unlink | boot links over ssh, Redfish through the fan-out, host keys | a request that failed may have been carried out; a script outlives its session; interrupt at any step; irreversible steps | what is left armed is reported; keys and resets come after every machine is armed; a node reported as reinstalling reinstalls |
| **BMC power** `cli/bmcpower.go` | pending nodes, rounds, rows, spans, batches | `runPower`, `bmcPlan.run`, `settle`, `sendIPMI`, `bmcExit` | Redfish client, IPMI sessions, pins, progress display | two transports, fallback after an unclear answer, one session for many processors, interrupt | no action arrives twice; rows, display and exit code agree with what was done; a failed batch stops the rest |
| **Certificate pins** `redfish/pins.go`, `client.go` | the pin file, shared by all commands; what each command read of it | `Get`, `Set`, `RemoveAll`, the TLS verifier | file lock, `AppendSync`, `Rewrite` | readers without a lock, caches, appends cut short, a mutex held while a lock is waited for | one certificate is accepted until it is forgotten on purpose |
| **Plans of the MCP server** `mcpserver/plan.go`, `server.go` | the store of plans, the open question, the places for calls, the audit log | `plan_change`, `apply_plan`, `confirm`, `take`, `execute`, `limited` | safety gate, configuration, Slurm, the client that asks the administrator | calls race; answers late, repeated, or for another question; edits in between; cancellation; restart | a plan is applied once, as shown, to what was confirmed under the rule in force, and is recorded |
| **Safety gate** `safety/safety.go` | none (the configuration it is given) | `ProtectedIn`, `check`, `Preview`, `Accept`, `Confirm` | inventory, configuration | a host under another domain; the count to type | no protected host is touched without force |
| **Fan-out and pools** `fanout/` | places on each host, items under way | `Map`, `Hosts.Acquire`, batches | every command over many nodes | bounded, interrupted, places on two hosts at once | bounds hold; nobody waits for ever; every item has an outcome |
| **ssh transport** `transport/` | the ssh configuration, multiplexed connections | `New`, `Validate`, `Run`, `classify`, copy | ssh, every remote command | the session ends, the command goes on; settings of two sites on one machine | an outcome never claims more than is known; a host's key is checked by its own site's rules |
| **Boot links** `cli/boot.go` | links on the PXE host, named after addresses | set, unset, grub set and unset, status, the two scripts | Reinstall, ssh, inventory, dhcp, the machines that boot | a script stops halfway; one-shot and persistent links of one node; an address of two machines | a line of the report is true of the link; a link arms only a machine that was named |
| **Redfish client** `redfish/` | sessions, pins | `Power`, `SetBoot`, reads | Reinstall, BMC power | an answer is lost | an error says whether the request can have arrived |
| **IPMI backend** `ipmi/` | a session for each account | `Power`, `Status` | BMC power, ssh | the gateway goes on when its session ended | each line read belongs to one processor |
| **Host key file** `hostkeys/`, `cli/hostkey.go` | `known_hosts` files on this machine | `Modify`, refresh, remove; verify, list, scan | Reinstall, file lock, ssh handshakes | question, scan and rewrite are three steps; other writers; lines of several hosts, hashed, wildcards | no line of another host is lost; what was written last is there; no revoked key is trusted |
| **Slurm and job check** `slurm/`, `cli/slurm.go` | none here; nodes' states and the accounting database in Slurm | drain, resume, `jobcheck`, user add, user default | BMC power, plans, ssh | the state read is old when it is used; Slurm reads names its own way; an update stops halfway; two desks | no machine that may run a job is taken down unasked; only what was named is changed |
| **Node groups** `groups/`, `nodeexpr/` | lookups of one run, answers kept, files on disk | resolve, all, groups of a node | ssh, places on hosts | many lookups of one group at once, one of which fails; two hosts in two orders | each group is looked up once; a failure stands in for no answer |
| **Credentials and secrets** `credentials/`, `secrets/` | credentials of one run, decrypted values | lookup, prefetch | sops, helpers, the user | prefetch and lookup race; asking twice; locks | one question, one answer |
| **Secrets on nodes, cinc** `cli/provision.go` | files on the nodes | secrets push; cinc config and run | fan-out, ssh | a push cut short; a file replaced while it is read | a secret arrives whole or not at all; the client runs with what was read |
| **Configuration** `config/` | the merged tree and its origins | load, merge, override, effective | every command | precedence, documents of one name in two files | the layer with the last word has it, and is the one named |
| **Names and inventory** `naming/`, `inventory/`, `app/machine.go` | the inventory | build; select; host to processor and back | gate, Redfish, IPMI, boot links | two names for one machine; one address of two | a name means the machine it is the name of, or is refused |
| **Application context and caches** `app/`, `fileutil/` | cache files, values kept for one run or, in the server, between calls | `Locked`, `AppendSync`, `Rewrite`, `ReadCache`, `WriteCache`, `Cache` | everything that writes a file | locks, crashes between two writes, an edit during a read | what a call is served from the cache was all there at one moment since it came |
| **DHCP reservations** `dhcp/` | the declarations read | fetch, parse | ssh, cache, boot links | files read ahead of the parser, in any order | the parse is that of one file after the other |
| **Tunnels** `tunnel/` | the process id file, its lock, the processes | start, stop, running | sshuttle | two terminals at once; a process slow to end; a command killed under its process | one tunnel, one process, but for one whose command was killed; stop ends it and no other |
| **DNS checks** `cli/dns.go` | marks of servers that were silent | lookup, aliases | name servers, fan-out | servers that fall silent or change between two queries | an answer is what the zone holds; silence costs once |
| **exec and copy** `cli/exec.go`, `cli/copy.go` | none; what is written on the nodes and here | run, send standard input, upload, download | gate, fan-out, ssh, scp | a payload cut short on some nodes; a deadline and an interrupt at once; many nodes, one local path | ok means all of it, from the right place to the right place; exit codes say what went wrong |
| **Fabric checks**, **reports**, **command line and output** | none | read and print | fan-out, ssh | – | exit codes (see BMC power) |

Commands interact through calls in one process, through messages to ssh,
processors and Slurm, and, between two commands of one or two administrators,
only through files under a lock (pins, host keys, caches, tunnels) and through
what they did to the cluster. The MCP server is the one part that runs long and
serves several calls at once. The hazards, with the line where each bites and
the properties that guard it, are the list `hazards` of `PROJECT.json`.

## The modules

### Reinstall

`Reinstall.tla` models `provision reinstall` from the answered question to the
end. The command and the world share messages only, so the state is in two
halves: `bootLink`, `bootOnce`, `reset` are what the command records of each
node (`reinstallNode`), `link`, `override`, `machine`, `keys` are what is so.
`late` is a history variable: what happened after the command stopped waiting.

| Code | Actions |
|---|---|
| `reinstallPlan.run`, step by step | `WriteStart`, `WriteRead`, `OnceOver`, `Forget`, `ForgetFails`, `ResetOver` |
| `reinstallPlan.fail` | `Disarm` (part of the action that fails), `ClearOver`, `RemoveStart`, `RemoveRead` |
| `sendToBMCs`: a bounded fan-out | `FanOut`, `Send`, `NotSent`, `Answer`, `Unreachable`, `Fails`, `FanOutOver` |
| the two link scripts and `runLinkScript` | `WriteRecord`, `RemoveRecord`, `SessionEnds` |
| a request carried out at the processor, in time or not | `Carry`, `CarryLate` |
| the interrupt; the machines | `Interrupt`; `Restart`, `Boot` |

A script that lost its session may go on (`adrift`), a request that timed out
may still be carried out (`Carry` after `Fails`, or `CarryLate`), and a machine
may restart by itself.

### PinStore and TrustOnFirstUse

`PinStore.tla` models the pin file, the lock on it, each command's mutex and
cache, the append in two halves, a failed write and a killed command.
`TrustOnFirstUse.tla` is what the store promises: a register for each processor
that takes the first certificate and no other until it is emptied on purpose.
`StoreIsRegister` checks that the one implements the other under the mapping
`pin <- Recorded`: what a reader with the lock would read now.

### BmcPower

`BmcPower.tla` models `bmc power` and `bmc status` after the question: batches,
rounds, the two transports of each node's order, the fallback, the display
(`span`), the rows, and the exit code. `call` is what the command knows of a
request; `gateway`, `wire` and `received` are what is so. `bmc.ipmi.maxConcurrent`
bounds each gateway run; that the division among accounts may add up to a
little more is described [below](#where-the-code-and-its-words-disagree).

### SafetyGate and McpPlan

`SafetyGate.tla` holds the gate's decisions as operators. `McpPlan.tla`
composes it with the MCP server's `plan_change` and `apply_plan`. A call is a
run of a handler; one step of the model is the code between two points at which
another call, an edit, a clock or a client can come between:

| Code | Actions |
|---|---|
| `limited` | `Arrive`, `Place`, `TurnAway` |
| `planChange` | `Prepare`, `Note` |
| `applyPlan` | `Get`, `Reread`, `Ask`, `Judge`, `Ssh`, `Take`, `Record`, `Send`, `Close` |
| any early return before the plan is taken | `Refuse` |
| outside | `Edit`, `Expire`, `Answer`, `Cancel`, `Stop` |

`apply_plan` ends when it has put its question, and the client calls it again
with the answer; nothing keeps it from calling late, twice, or after another
question, and none of that is excluded.

### KnownHosts and HostKeys

`KnownHosts.tla` holds the file's lines and what is computed of them: which
hosts a line covers or names, `RemoveAll` and `ReplaceAll`, which treat many
hosts in one pass, the index, and `Render` with `Parse`. Its second part, after
the ruler, does the same for one host after another, as `Remove`, `Replace` and
`Add` are documented; it is what the batches are measured against.
`HostKeys.tla` runs the commands that write the file side by side:

| Code | Actions |
|---|---|
| `hostkey refresh`, once the question is answered; `scanTargets` | `Refresh`, `Collect`, `ScanOver` |
| `hostkey remove`; "forgetting the host keys" of Reinstall | `Remove` |
| `Modify` | `TakeLock`, `LockTimeout`, `Read`, `Write` |
| outside: a reinstalled machine, the team's editor, a kill | `Rekey`, `Revoke`, `Killed` |

The file is kept as `Parse` reads it, so `Write` is `Render` followed by the
`Parse` of whoever reads next. `last` is a history variable: what the last
command to write said of each host.

### Lookups, Credentials, DhcpFetch

What many callers of one command read together. The three have one pattern,
a flight that one caller makes and the others wait for, and three ways to get it
wrong: that of a waiter whose own context ends, of a place held while one waits,
and of reads that overtake the reader.

| Code | Actions |
|---|---|
| `groups.Resolver`: `Resolve`, `All`, `GroupsOf`, `lookup`, `run`; `fanout.Hosts` | `Call`, `Lookup`, `Wake`, `Acquire`, `CommandOver`, `NotAcquired`, ... of `Lookups` |
| `credentials.Resolver`: `Prefetch`, `Get`, `readOnce`; the secrets of `app` | `PrefetchOver`, and the steps of an asker in `Credentials` |
| `dhcp.Parse` with its fetcher; `App.DHCPConfig`; `RemoteFile` | steps of the parser and of a worker, `Slot` and `Read` of the fetcher in `DhcpFetch` |

`DhcpSequential.tla` is the parse as it would be with nothing read ahead, one
file after the other (`Sequential`), and the property `AsOneByOne` that measures
the fetcher against it. It is recursive, which is why it has a module of its own.

### Tunnel, SecretPush, Cinc

`Tunnel.tla`: `Start` and `Stop` from several terminals, the lock on the process
id file, the file, the processes of the machine, numbers that are used again,
processes that die or are slow to end; and the options of a profile, of which
sshuttle takes the last, whole, abbreviated or short (`fixedOption`). The first
signal cancels the context, which kills a sshuttle in the foreground with its
command (`Interrupted`: `exec.CommandContext`, `main.go:25-49`). A second signal, or
a SIGKILL, ends the command alone: its lock is free and its sshuttle goes on
(`Killed`), comes to the background later (`DaemonizedAlone`), and is in `left`, the
processes the properties except. That `Stop` looks at the process and signals it
is one step here (`Signal`).
`SecretPush.tla`: a worker for each node, one session in which a script writes
every file (`Put`, `ScriptEnds`, `ScriptDies`), the lines it prints, what of the
payload still arrives after the session is lost, the rows and the exit code.
`Cinc.tla`: `cinc config` replaces a file while `cinc run` reads it, decides for
each node, and runs the client with what it read.

### Slurm and Accounting

`Slurm.tla` has the nodes as slurmctld has them (`job`, `drained`, `reason`,
`maint`) and drain, resume and a power action typed at several desks: the check
(`CheckNodes`, `checkSlurmIdle`), the question, the update that stops halfway
(`Update`), the read back. `Reads` says what slurmctld takes a name for, which
is not always the machine. `Accounting.tla` has `slurm user add` in its steps,
plan, question, associations and default account, against another desk and in a
database of several clusters.

### BootLinks

The links on the PXE and TFTP hosts by address, and `boot set`, `boot unset`
and `boot grub` from the resolution of addresses (`Resolve`, `checkBootLinks`)
over the question to the lines of the scripts (`Record`, `WriteOver`). The
machines are outside and find what is named after the address they boot with
(`Request`). Reinstall writes the same links by the same scripts; there a node
is one record, here the addresses are told apart.

### Configuration, ConfigCache, Machines, SshSettings

`Configuration.tla` loads documents one by one, takes over the contexts they
hold one by one, and merges the layers leaf by leaf, with the origin of each. A path is the sequence of its
keys, so that writing a value to a path takes what is below and above it along.
`ConfigCache.tla` is the configuration the MCP server keeps between calls:
`Find`, `Look`, `Compare`, `Read`, `Keep`, `Inventory`, with an editor between
any two. The files are looked at one after another and read one after another
(`config/load.go:82-84`), so a call that reads them across two edits may get the
old text of one and the new text of another, which were never there together.
`CallSeesItsFiles` therefore promises each file as it was at some moment since the
call came (`was`), and all of them as they were at one moment (`AtOneMoment`) only
to a call that is served what another has read: the mixture is left to nobody.
`Machines.tla` builds the inventory entry by entry and name by name
(`Build`), with its claims on identifiers (`CheckUnique`), and then resolves what
was typed (`Select`, `Canonicalize`). What an inventory promises is said of the
entries that were read so far (`NamesRead`, `AsWritten`), and what a name means of
the inventory alone (`Owners`, `Meant`), beside the code's search through
spellings, addresses and rules (`MachineOf`).
`SshSettings.tla` is what decides whose rules a host's key is checked by: the
generated file, its name, what a setting may not say, the included file, the
control path of an open master, and circles of jump hosts: `CyclicJumps` is a set
of roles each of which leads to another of the set, and `FirstHops` are the hosts
the loop of `JumpHosts` comes by before it meets one it has seen. Against what the
code computes of the roles stands what ssh does with the file it reads: `Jump`,
`Reaches` and `Connects` take the jump hosts from the rendered text, `ssh.options`
and the included file among it. Such a jump host "is not known here"
(`sshconfig.go:598`), and `JumpsEnd` says what is true all the same. `Trust` is the
sources of host keys and the strictness. The name that is looked up in them is not
part of it: the generated file sets no `HostKeyAlias`, and no option may, but an
included file can.

### Session and Dns

`Session.tla` is one remote command: ssh, the command under `timeout(1)` on the
node, the deadline, the grace, the output that something may hold open, and
`classify`. Its time is counted in ticks and whatever is due happens before
time goes on. `Dns.tla` is `dns lookup` and `dns aliases`: workers over several
servers, which share the marks of the silent ones, servers that fail, truncate
or go silent between two queries, aliases in chains and circles.

### NodeRuns

`NodeRuns.tla` is `exec` and `copy`, which run one command, or one transfer, on
many nodes: what comes before the fan-out (`Check`, `ReadPart`, `ReadFails`,
`Gate`, `Prepare`, in the order of the two commands), the executor (`Start`,
`NotStarted`, `Panic`, `Return`), the parts a session carries (`Carry`), and what
is made of the results: `Status`, the groups of `--dedup`, the exit code.
A payload is a set of parts, each with where it came from, and `store` says
what is at each place, so that a payload cut short, two downloads to one path
or an operand that scp takes for another host are seen as what they do. The
session itself is `Session`; here it ends in one of the ways it can.

### Conventions

A definition that ends the name of another with a qualifier
(`FreshAsFound`, `WantedByClient`, `StepOutcomeRaw`, ...) and is used nowhere is a plausible mistake in the
definition it stands before: with it in the place of the right one, the property
`PROJECT.json` pairs it with is violated. It shows that the property depends on
the code and not on the shape of the model.

## The runs

Twelve runs; each asks one question of the system. A property that is a
conjunction is named in the component's module with its parts.

| Run | Instance | Shows |
|---|---|---|
| `reinstall` | 2 nodes, fan-out of 2, one persistent link, one machine that tries the network first, one that restarts by itself, late effects | types; `ArmedIsReported`; `ReportIsTrue` = `ReinstallingIsTrue`, `SuccessIsWhole`; of every step `OnlyOnceArmed` = `KeysGoLast`, `ResetFindsArmed` |
| `reinstall_reset` | 2 nodes | a counterexample, see below |
| `pinstore` | 2 commands, 3 handshakes (two in one command), 1 processor, 2 certificates, 1 forget, 1 crash | types; `PinsAreOne` = `OneAccepted`, `CacheIsFile`; the refinement `StoreIsRegister` of `TrustOnFirstUse`; `Ends` |
| `pinstore_torn` | 2 commands, 2 processors | a counterexample |
| `bmc_power` | 3 nodes with the three kinds of order, 2 accounts, 2 batches, one Redfish request and two sessions at once; all three kinds of action | types; `NeverTwice`; `ReportIsTrue` = `RowsAreTrue`, `ReadsTryAll`, `SpanIsRow`, `ExitIsHonest`; of every step `SentOnlyWhereFree` = `BreakerHolds`, `PinIsFinal`; `Ends` |
| `mcp_plan` | 1 plan of 2 nodes, one also known under another domain, 2 calls at once in 2 places, 2 questions, 5 configurations that differ in one setting each, 1 edit, 1 stop, both modes | types; `AppliedAtMostOnce`; `SentAsAgreed` = `SentIsConfirmed`, `ShownIsSent`, `ExpiredIsNotSent`; `OneAnswerOneAttempt`; `SentIsRecorded` |
| `runs_end` | a reinstall of 2 nodes, one request at a time; 2 calls of the server for 1 place, 2 questions, 1 stop | `EveryRunEnds`; `PromisedHappens` |
| `shared_reads` | groups: 2 callers, 3 sources, 2 hosts of one place each, in two orders; credentials: 3 workers and a prefetch, 3 kinds of source, one document; DHCP: 2 workers, 4 files in 5 layouts, 2 readers ahead | types; `SharedIsTrue` (`AnswerIsTrue`, `GroupsOfIsWhole`, `UnionIsWhole`, `OneAnswer`, `KeptIsAnAnswer`); `AskedOnce` (`OneCommand`, `AskedOnce`); `AsOneByOne`; `EveryCallEnds` |
| `commands` | fourteen scenes, see below | types and the fourteen properties below |
| `host_keys_comments` | the scene of the host keys | a counterexample |
| `tunnel_second` | the scene of the tunnel | a counterexample |
| `boot_shared` | the scene of the boot links, with an address DHCP gives to another node | a counterexample |

Components that share no state are checked in one run, one after another
(`Commands.tla`, `SharedReads.tla`): `scene` says which of them a behaviour is of,
and the registers `v1`, `v2`, ... are its variables, in the order in which its
module declares them. The constants of each are a record (`OfTunnel`,
`OfGroups`, ...), to which the `MC` module gives its value. A scene never
changes, so a property `scene = "tunnel" => ...` is the component's own, on its
own instance, and the states of a run are the sum, not the product, of those of
its scenes. The scenes of `commands`:

| Scene | Instance | Property of the run | What it is |
|---|---|---|---|
| tunnel | 2 terminals, 3 commands each, 3 process ids, 2 signals to commands or deaths of tunnels | `TunnelsAreWhole` | `OneTunnel`, `UpIsNamed`, `OnlyTunnelsAreSignalled`: of the processes that no killed command left, as long as no process that was slow to end or left has taken the file of the next |
| push | 2 nodes, 2 files, 2 losses | `PushesAreTrue` | `PushIsTrue`, `ExitIsWorst` |
| cinc | 2 nodes, 2 archives, 2 writes, 2 losses | `PushesAreTrue` | `RunIsAsRead` |
| slurm | 2 nodes, one of another name in Slurm, 2 names Slurm takes for both, 2 desks | `NodesAreAsNamed` | `JobsAreSeen`, `OnlyNamedChange`, `ReadBackIsTrue` |
| account | 2 clusters, 2 accounts, 2 desks | `AddedAsShown` | the same of `Accounting` |
| boot | 2 nodes and a machine of DHCP only, 2 paths, 2 desks, 4 worlds | `BootIsAsNamed` | `OnlyNamedBoot`, `LinksAreAsReported` |
| config | 7 sets of documents, 48 calls | `ConfigIsAsWritten` | `LastWriteDecides`, `NoneStandsIn` |
| cache | 3 calls, 2 clusters, 2 files, 2 edits | `ConfigIsAsWritten` | `CallSeesItsFiles` |
| machines | 11 inventories, all pairs of 14 names | `NamesAreAsMeant` | `InventoryIsAsWritten`, `SelectedIsMeant` |
| ssh | 2 processes, 17 settings, 3 hosts, an included file with 3 contents | `TrustIsOwn`; `NamesAreAsMeant` | `TrustIsOwn`; `JumpsEnd` |
| host_keys | 2 commands, 2 hosts of 4 names, 2 keys, 6 files, 1 new key, 1 revocation by hand; the batches on 5 lists of names in every quiet state | `KeysAreAsWritten`; `BatchIsOneByOne`; of every write `OnlyNamedGo`, `RevokedIsNotTrusted` | `WrittenIsThere`, `IndexIsFile`; `BatchIsOneByOne`; `TakesOnlyNamed`, `TrustsNoRevoked` |
| session | 3 ticks for the command, 2 to reach the node, 1 of grace, 4 statuses | `SessionIsTrue` | `ResultIsTrue`, `EndsInTime` |
| dns | 2 names, 2 servers, 2 at once, 1 change of a server | `AnswersAreTrue` | `AnswersAreTrue`, `SilenceCostsOnce` |
| runs | 16 command lines on 2 of 3 nodes, one protected, one an address with colons; a payload of 2 parts | `PushesAreTrue` | `RunsAreTrue` = `SentAsMeant`, `ResultsAreTrue`, `GroupsAreTrue` |

Why the bounds are enough:

- **Reinstall.** Nodes meet only in the fan-out, in the scripts and in the
  decision to go on, which asks whether *every* node succeeded; one that fails
  and one that succeeds is every case of it. A fan-out of 1 makes the second
  node wait, one of 2 lets both be under way.
- **PinStore.** A race needs two clients in one command (the mutex, the cache)
  and one in another (the lock). One forget and one crash each put the file into
  every state a later one finds.
- **BmcPower.** The interesting orders are both transports each way and a node
  with one transport only; two accounts are a session that ends while another
  goes on; two batches are a first that fails and a second that must not start.
- **McpPlan.** Calls meet in one plan; two of them race for it, and the second
  question makes the first one's answer stale. Five configurations change the
  cluster, the host, the protection and the rule, so every reason for which a
  plan no longer stands, or an answer no longer suffices, occurs.
- **Lookups, Credentials, DhcpFetch.** A flight needs one who makes it and one
  who waits; hosts of one place in two orders are the smallest deadlock there
  can be; a third worker asks for a document while the prefetch holds what it
  needs. The five layouts hold an include inside another, one twice, one in a
  circle, one with an error, and one that is deeper than the limit.
- **Tunnel, Slurm, Accounting, BootLinks.** Two desks, and commands of one
  that come between any two steps of the other. Three process ids let one be
  used again while another ends, and two signals leave a sshuttle behind and
  let the tunnel that is started after it die.
- **ConfigCache.** Two edits are what a mixture takes: one file read before the
  first, the other after the second; and three calls, one that reads it, one that
  must not be served it, and one of another cluster.
- **SecretPush, Cinc.** A node whose session is lost and one whose is not; two
  files, so that one is written and the next is not.
- **Configuration, Machines, SshSettings.** These compute more than they
  interleave; the inputs are chosen so that every branch and every refusal is
  taken: values that replace sections and the other way round, null, names that
  are twice there, identifiers that clash, jump hosts that lead back.
- **HostKeys.** Lost updates need two writers; each command runs once. The six
  files hold between them a host alone on its line and one that shares it, a
  hashed name, a wildcard with a negated name, both markers and comments; the
  lists hold a host twice, in another case, and in both orders. A scan finds one
  key of a host, as `Scan` does.
- **Session, Dns.** The deadline, the grace and the time to reach a node are
  told apart by their order only, and three, two and one ticks have each of
  them before and after each other. Two servers and two workers are a mark that
  one sets while the other asks; an alias, a circle and a missing name are the
  answers there are.
- **NodeRuns.** Two nodes are one that has all of the payload and one that has a
  part; two parts are what can be cut short. The command lines take every branch
  of the gate, both directions, a fan-out of one and of two, and the paths and
  addresses that scp could read otherwise than they were meant.

All runs but the violations set `CHECK_DEADLOCK FALSE` because a command ends
and a server may have nothing to do; that they end, or go on, is what `Ends`,
`EveryRunEnds` and `EveryCallEnds` say. The violations that are no liveness do
the same for the same reason.

## Fairness

- A Go program goes on: weak fairness of the command's own steps.
- A request is answered or given up, by the timeout of the Redfish client, and
  a session ends, by the timeout of the remote command: weak fairness of
  `Answer \/ Unreachable \/ Fails` and of `Replies`. Nothing says *which*.
- A machine that was reset boots: weak fairness of `Boot`.
- Lookups, prefetches and fetchers are goroutines that run, and a session to a
  host ends at its timeout at the latest: weak fairness of each asker's steps
  (`Step`), of `PrefetchOver`, and of `Slot` and `Read` of each file. An
  administrator who is asked for a password answers or interrupts.
- A mutex of Go's is handed to whoever waited longest, and a channel's sender
  that waited longest goes first: strong fairness of a client's steps in
  `PinStore` and of `Place` in `McpPlan`, which others may disable in between.
- Nobody is bound to answer a question, retry a call, edit a configuration,
  interrupt, give up or stop anything, and what is adrift may never happen.

## What is proved

TLAPS proves these for every value of the constants the modules' assumptions
allow (finite sets of nodes, calls, processors and handshakes, bounds that are
natural numbers); TLC checks them on the instances above.

**`ReinstallProofs`**: `TypeCorrect`, and `NothingArmedUnreported`, that
`ArmedIsReported` holds at the end of every reinstall. The property speaks of
the end only and is far from inductive: it holds because, all along, a link on
the PXE host is accounted for either by what the command recorded, or by a
script that is still to be read, or by the history of what came late. The
invariant follows the two resources through the steps: `WriteInv` and
`LinkInv` (where a link that is there can have come from, while and after the
first script), `RemoveInv` (what the second script may still take), `OnceInv`
and `ClearInv` (the same for overrides, through the two fan-outs).

The second part of the module proves `ReportTrue` and `ArmedFirst`, that what the command
says of each machine is true and that nothing irreversible comes before every
machine is armed. The invariant says how the command goes from step to step on
what it was told (`StepInv`), that it leaves nothing adrift behind on the way to
the resets (`AdriftInv`) and disarms no node before they are over or that was
reset (`LeftInv`). So a link that was set and an override that was carried out
are still there when the resets come, or the machine has used them (`ArmInv`),
and nothing takes them from a machine that was reset (`GoodInv`).

**`McpPlanProofs`**: `TypeCorrect`, for which `TypeOK` is strengthened by
`PlansInv` (the run that makes a plan is the only one to know it until it is
stored; runs past `get` are of plans that exist) and `AskInv` (every run that
may ask has a question left to put), with the bound on the places proved by
counting; and `AppliedOnce`, that a plan is applied at most once. `take` is
the only place where the runs of one plan are told apart, so the invariant is
about what comes after it: a run past `take` has used its plan (`UsedInv`), no
other run of its plan is past `take` (`OneInv`), and nothing was sent for the
plan before it (`FirstInv`).

Its second part proves `OneAnswer`, `Agreement` and `Recorded`. What a plan
showed and what was asked and answered never change again; a run goes from step
to step with what it read. So each run carries along what the steps before it
made sure of: its plan stands under the configuration it read (`ReadInv`), its
question is about this plan (`AskedInv`), an answer is used up by the run that
goes ahead on it (`AheadInv`), and it is a yes by the rule it was judged under
(`YesInv`). What is sent takes all of them over (`SentInv`). `LoggedInv` follows
the audit log along the same steps.

**`BmcPowerProofs`**: `TypeCorrect`, `NoneTwice`, `SentWhereFree` and
`ReportHolds`. The proof counts the load of a node: what its processor carried
out, and what the gateway and the wire still hold for it. A node is queued only
while its load leaves room for one more, and one that falls back, or of which the
rows say that nothing arrived, has none (`LoadInv`); so a late gateway cannot make
an action happen twice or after all. `AccountInv` (the nodes of an account wait
together) is what makes one session for all of them safe, and `PlaceInv` that the
nodes asked are of the batch under way. The rows follow from what was answered
(`KnownInv`) and where a node stands (`RowInv`), the order of the batches from
`BatchInv`. While requests are under way each step moves a node in one of five
ways, which the invariant is shown for once. The assumption is that of the module:
an order has one transport or both, and the batches divide the nodes.

**`PinStoreProofs`**: `TypeCorrect`; `StoreImplements`, that the store implements
`TrustOnFirstUse`; and `PinsAgree`, that one certificate of a processor is
accepted between two forgets and no cache is stale. A store answers from its
cache as long as the file has the same id and size, so the proof is about how
files change. One of the same id only grows (`ReadInv`), by the half lines that
`Size` counts, since whoever appends holds the lock (`LockInv`) and found under
it that the processor has no line and that the last line can be ended (`SetInv`,
`TailInv`). So what a reader has read is less than the file, or is the file. The
types need `DropInv` besides, which counts the forgets. Every step is then one of
the register or none: an append changes what is recorded when it begins to be
read as ended, which is when it ends, fails or its command is killed. That one
certificate is accepted is proved of the register and carried over. The
assumptions are that processors and handshakes are finitely many and that a
processor is not named as the marks for a missing last line.

**`CommandsProofs`**: five scenes of `Commands`. A behaviour is of one scene all
along, so each theorem has a lemma for its scene, `scene = "..." => Inv` of the
component, and the steps of the other scenes are stutters of it.

- `SessionReportsTrue`. What is reported is decided by the clock and by what
  ended first. `ToldInv` and `TimeInv` say that ssh is told to stop no later than
  the deadline and waited for no longer than the grace; `CommandInv` that the
  command runs from when the node was reached, and ends by itself as long as the
  node is heard; `CodeInv` what ssh can have exited with and when.
- `AddedAsAsked`. What each desk planned still holds where it matters when it
  acts: nothing is taken away here (`HereInv`, `PlanInv`), and the default account
  is of the plan of whoever set it last (`ByInv`).
- `OneTunnelIsUp`. The lock leaves one command alone with the file and with the
  process it starts. So what is in the foreground is the child of the command
  that waits for it, or was left by one that was killed (`ChildInv`), and what is
  in the background and was not left is what the file names, unless a process
  slow to end, or left, has taken the file (`FileInv`); what is left is excepted
  from the claim, not from the model (`LeftInv`); that a process is signalled only after its own options
  were compared (`OptionInv`, `VerbInv`) makes it a tunnel.
- `NodesChangeAsNamed`. Between the check and the update anybody may change
  anything, so the invariant says what of the check is still so: a job on a node
  that was seen free has started since (`SeenInv`), nothing is changed before
  the question is answered (`QuietInv`), only a power action cuts power
  (`CheckedInv`, `PowerInv`), and a node a desk changed last is as it wanted
  (`TouchedInv`), which is what makes the report after a failed update true.
- `KeysAreWritten`, `OnlyNamedTaken` and `RevokedNotTrusted`, of the host key
  file. Whoever reads or writes it holds its lock (`LockInv`), so what a command
  has read is the file until it writes (`ReadInv`). What remains is one write: how
  the file after it is made of the file before. To reason about it, sorting,
  picking and joining are defined by the places things come from (`Ranked`,
  `Picked`, `Joined`), and the lemmas say that each place is taken once. With them
  `Written` holds of every write: a line for each line that is left, less the
  names of the hosts it is about, and one new line for each host that is written,
  also after `Render` has sorted them, which needs that its order is one (two
  lines that it does not tell apart stay as they stood), and after `Parse`. So
  what was last written of a host outlasts the writes of others, nothing but the
  names that were given goes, and no note is lost.

**`CommandsPushProofs`**: five scenes of `Commands`, what is brought to many nodes
and how a command comes to them.

- `PushesAsReported`. For `SecretPush`, what the node said it has written is
  written, whatever the session heard of it (`SaidInv`), and a row is made once
  of the lines that were heard (`RowInv`). For `Cinc`, what was read is what the
  file named at some moment of the read (`NamedInv`), and the client ran with
  that or did not run (`RunInv`). For `NodeRuns`, nothing is begun of a command
  that was not let through (`BegunInv`); a place holds a prefix of what its one
  reader was sent (`StoreInv`), which rests on every host having a place of its
  own; and the results follow from how a session ended (`ContextInv`,
  `ResultInv`), the exit code from the results by the maximum over finitely many
  nodes (`ExitInv`).
- `TrustIsTheirOwn`. A file in the state directory is what its name says
  (`FileInv`), so what ssh reads is what its process rendered (`SettingInv`); in
  it the first value of an option counts, which stands before the file that is
  included; and a master found under a name that carries the settings was opened
  under them (`MasterInv`).
- `NamesMeanTheirMachines`. The entries are read in order (`PlaceInv`) and what is
  kept of a node is what those that were read say of it (`KeptInv`): for each
  field the last entry that gives it, which needs that two spellings of a name
  never make two nodes. An inventory that is served has each identifier on one
  machine (`UniqueInv`). From this the lemmas about names follow: a name that is not
  in the inventory has at most one spelling there (`InventorySpelledOnce`), a short
  name is held by one machine at most, since what the rules make has a domain
  (`InventoryShortHeldOnce`), and so whichever way the code decides it selects the
  one machine that is meant (`InventoryMachineIsMeant`, `SelectedInv`). Of the
  jump hosts: roles of one host share a block, so its chain is one
  (`SshChainOf`); a first hop is the host or begins the chain of another
  (`SshFirstHops`); and if no first hop were reached directly, their roles would
  be a circle, which `Validate` refuses (`SshEnds`). A role's chain is the first
  value of its host's block, so ssh follows it whatever the options and the
  included file say (`SshJump`), and what is counted is connected to
  (`SshCounted`); where ssh comes to no jump host of theirs, it goes by the roles
  alone (`SshReaches`, `SshJumpsEnd`).

**`SharedReadsProofs`**: `SharedTypes`, `SharedAnswersAreTrue` and
`EachIsAskedOnce`, of all three scenes.

- `Lookups`. `KeptInv` says of every answer that is kept, and `SoundInv` of every
  one an asker carries, that its source gave it while it was asked for; an asker
  that follows another's flight takes that over, and one whose flight failed for
  a reason of its maker's own begins again. `FlightInv`: a flight has one maker,
  and what is kept is not asked for again, which is `OneCommand`. `PlaceInv`
  follows the places on the hosts along a path, `PoolInv` who works while whom
  waits, and `UnionInv` and `GroupsInv` what the answers of several sources
  are put together from. `UnionIsWhole` (nothing of a group, and no failure of
  one, is lost when several are taken together) was stated for the proof, and
  TLC checks it too.
- `Credentials`. One asker reads a source at a time (`ReaderIsOne`), holds the
  terminal while it asks (`TerminalIsHeld`), and what is counted as read is kept
  (`ReadsAreCounted`), so that whoever comes later gets the same (`GotIsKept`).
- `DhcpFetch`. The parser is where its frames say, no deeper and over no more
  files than it may (`PlaceInv`); a read is canceled only with the worker that
  reads (`FetchInv`); so what is kept is the parse of files that were all read
  (`AnswerInv`).

**`CommandsWorldProofs`**: four scenes of `Commands`, all of them about something
that others change meanwhile.

- `BootIsAsAsked`. Every link that is there is at the address of a node that was
  armed, which no other machine takes (`OwnInv`); a one-shot link that is there
  has not been given out (`GrantInv`), so a node boots no more often than it was
  armed; and a row that nobody else touches says what is there (`RowInv`). The
  theorem assumes `AddressesAreOwn`, that no address of the inventory is another
  machine's in DHCP: the code does not make sure of it, and the run `boot_shared`
  shows what happens otherwise.
- `LookupsAreTrue`. What an item knows was said by a server in this zone
  (`KnownInv`), and an answer is given of that alone (`AnswerInv`). That a silent
  server costs no more than its limit of timeouts is counted: those it has cost
  and the items that may still ask it before another (`CostInv`).
- `ConfigurationIsAsWritten`. No two documents of one name are indexed
  (`IndexInv`), a context is as the last document gives it that names it
  (`ContextInv`), and `LastWriteDecides` is inductive itself over the writes that
  are merged, since no path of a tree is the beginning of another. In the cache of
  the server a file is looked at before it is read (`SeenInv`), so that what is
  kept is no older than its stamps; a call that looks at the files has had the
  mutex since a moment that lies between that reading and its own first look
  (`KeptInv`). If it then finds the stamps, nothing can have changed between them
  and that moment, and what is kept is the files as they were then (`GotInv`).

What these proofs ask of the constants is in the assumptions of the modules, and
is what the code makes sure of or what the names in the model mean: names that
are marks (no terminal, nobody, no file) are not names of anything else; the
sources of a lookup are finitely many and each is asked once; a file includes
files, in a sequence of statements; what is typed at a desk of Slurm is of one of
the three verbs; a host to run a command on has a name, which `CheckHost`
(`src/internal/hostname/`, called in `transport.go:429`) keeps free of the
characters scp would read otherwise; a name that is looked up is no address;
options, overrides, jump hosts and included texts are sequences, and a role has a
host or none; an entry of the inventory gives fields the code knows, and the names
it lists and those that are typed have the parts a name has in the model; the
hosts whose keys are
scanned do not differ in case alone, since `Namer.FQDN` (`naming.go:79`) puts
names in lower case and the inventory refuses two addresses that differ in case
alone (`inventory.go:304`). TLC evaluates them on every run.

Only model-checked, and why:

- Liveness (`Ends`, `EveryRunEnds`, `PromisedHappens`, `EveryCallEnds`): fairness
  and ENABLED are out of the reach of the prover.
- `AsOneByOne` compares a parse with a recursive definition, and
  `BatchIsOneByOne` two folds over a file: both are induction over data, which
  the prover cannot do.
- `TypeOK` of `Commands` as one statement. Each of its conjuncts is a conjunct of
  the proved invariant of its scene (`TunnelAlways`, `InventoryAlways` and the other
  lemmas of that name), but these are lemmas of three modules, kept apart so that each
  is checked in minutes rather than hours.

## Where the code and its words disagree

Five runs end in a counterexample; `PROJECT.json` quotes the lines.

1. `reinstall_reset`: a comment says a machine whose reset failed at the client
   and was carried out boots its old system once it is disarmed. It may be
   installing by then, and is reported as disarmed.
2. `pinstore_torn`: a comment says that a last line without its end was written
   by hand. A failed append leaves one too, and the next writer takes the part
   for a pin: a processor is refused, never falsely accepted, until it is
   forgotten by hand.
3. `host_keys_comments`: the guide and a comment say that a comment stays with
   the entry under it. The comment of the line that sorts first is read as the
   file's title at the next rewrite, and another host's key may come between
   the two.
4. `tunnel_second`: a comment says that starting a tunnel that is running never
   makes a second one. A tunnel that is stopped and started again before its
   process has ended loses its file to that process, and the next start makes a
   second. (There is another way to a second one, which is not counted in this
   run: a start that is killed by a second signal, or a SIGKILL, leaves its
   sshuttle, and no lock, behind.)
5. `boot_shared`: the help of `boot set` says that an address another node has
   in DHCP is refused. When the inventory sets the node's own address, DHCP is
   not asked.

Read while modelling, and left at that, because each is visible from the lines
alone or a matter of how a sentence is meant:

- `doc/safety.md:181-182` says that nothing more is sent once a BMC command is
  interrupted. The tool on the gateway goes on with the processors it was given
  (`gateway` in `BmcPower`); the rows and the exit code allow for that.
- `src/internal/cli/bmcpower.go:712-714` says that the runs of several accounts
  together ask no more processors at once than one run would. The shares are
  at least 1 each: a bound of 3 over accounts of 1, 1 and 20 processors gives
  1, 1 and 2 (line 796).
- `src/internal/transport/transport.go:188-197` says of `Check` that a failure
  without an exit status is a transport failure and any other exits 1. A
  command that exited 0 and whose output was cut off is a transport failure as
  well (line 204; `"cut off"` in `Session`).
- `src/internal/cli/copy_test.go:198` says that a transfer given up on is a
  connection that did not finish, not a command that failed on the node. When
  the interrupt comes after the transfer's deadline and before scp has ended,
  `copyRunner.copy` (`copy.go:220`) leaves the result as `classify` made it, with
  scp's own status and the exit code 1; `ResultsAreTrue` allows for that.
- `site/content/docs/guides/access.md:133-135` says that a chain of jump hosts that
  comes back to where it started is refused. `checkJumpCycles`
  (`sshconfig.go:751`) follows the roles alone. With `ProxyJump` set for every host
  in `ssh.options`, to a host whose role jumps to one that gets no jump from a role,
  the settings are accepted and ssh goes round for ever; the `ssh` scene has such
  settings, and `JumpsEnd` leaves them out where it says that a connection ends.
- The help of `dns lookup` says that a silent server costs one timeout. It costs
  one for each lookup that is under way when it is asked first, which is what
  `SilenceCostsOnce` says.

## What is not modelled

- Text: flags, layout, messages, the ssh configuration, schemas, scaffolds, the
  parsers of leases, node sets and tool output. Where a decision depends on
  one, the model has the decision, with the parse as a choice among its
  results.
- Reports that change nothing: fabric, doctor, `node`, `boot status`, `dhcp
  list`, `tunnel status`, the reports of Slurm, the MCP server's read tools.
- `hca config set`, which changes adapter settings by one script for each node
  and reports its lines, a fan-out of the shape of `SecretPush`; `boot sync`,
  which runs the image builder; `slurm account`, one call of sacctmgr each;
  the shell of `login`.
- What other programs do inside: sops, ssh, Slurm, sshd, sshuttle, name
  servers, service processors. They appear as what can be seen of them from
  `src/`.
- Requests to a host without a POSIX shell (`NoShell`, `transport.go:143-147`), which
  are sent without the guard and whose 255 reads as a connection failure, and
  requests without a timeout: `Session` has neither, and `SessionIsTrue` says
  nothing of them.
- A job that starts after the check of Slurm and before the power-off: the
  window is there by design, and `JobsAreSeen` allows for it.
- A process that ssh started and that holds the output open after the command
  was told to end is in `Session`; one that a command on the node leaves behind
  there is not.
- Keys that contain a dot: where the origin of a value is looked up by its
  joined path, two such keys may have one name.
- Of the host key file: an editor that saves while a command holds the lock,
  which knows nothing of it, and the comments at the end of the file.
- The rest of the components table; each row of `components` in `PROJECT.json`
  says what of it is modelled.

## Plan

Done: Reinstall; PinStore over TrustOnFirstUse; BmcPower; SafetyGate and McpPlan
over it; HostKeys over KnownHosts; Lookups with the places on hosts,
Credentials and DhcpFetch; Tunnel, SecretPush and Cinc; Slurm and Accounting;
BootLinks; Configuration, ConfigCache and Machines; SshSettings and Session;
Dns; NodeRuns.

Next modules: Boot links and Reinstall over one set of links, with two
administrators; `hca config set`; the progress a call of the MCP server reports
while others wait.

Next proofs: the two statements about folds and parses, should the prover learn
induction over data; `TypeOK` of `Commands` as one theorem.
