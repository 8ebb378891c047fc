----------------------------- MODULE MCCommands -----------------------------
(***************************************************************************)
(* Instances of Commands for TLC: of each component the values of its      *)
(* constants.  The helpers make the records the modules of the same names  *)
(* make.                                                                   *)
(***************************************************************************)
EXTENDS Commands, TLC

CONSTANTS c1, c2   \* two commands that write host keys, or two calls of the server

CommandSymmetry == Permutations({c1, c2})

Unset == "unset"
None == "none"
Nothing == [x \in {} |-> Unset]
\* A line of an ssh configuration.  It comes before all else with a value: TLC
\* compares records by the field it has met first, and some values are
\* strings, others sequences.
Line(key, value) == [key |-> key, value |-> value]

(***************************************************************************)
(* Two terminals and one profile, whose option is another one or a short   *)
(* spelling of the pid file.                                               *)
(***************************************************************************)
TunnelOptions ==
  {[form |-> "long", sets |-> "--verbose", whole |-> TRUE],
   [form |-> "long", sets |-> "--pidfile", whole |-> FALSE]}

TunnelValues ==
  [Terminals |-> {"t1", "t2"}, Pids |-> 1..3, Uses |-> 3, Crashes |-> 2,
   Spellings |-> TunnelOptions]

(***************************************************************************)
(* Two nodes and two files.                                                *)
(***************************************************************************)
PushValues ==
  [Nodes |-> {"n1", "n2"}, N |-> 2, Limit |-> 2, Losses |-> 2]

(***************************************************************************)
(* Two nodes, two archives, and what is no archive.                        *)
(***************************************************************************)
CincValues ==
  [Nodes |-> {"n1", "n2"}, Archives |-> {"a1", "a2"}, Others |-> {"o1"}, Writes |-> 2,
   Losses |-> 2]

(***************************************************************************)
(* Two nodes, one under another name in Slurm; a name of the inventory     *)
(* that Slurm takes for both, and the word it takes for all; one desk that *)
(* drains and resumes, one that resumes and powers off.                    *)
(***************************************************************************)
SlurmCommand(verb, named, why, loseJobs) ==
  [verb |-> verb, named |-> named, why |-> why, loseJobs |-> loseJobs]
ReadAs ==
  "n1" :> {"n1"} @@ "n2" :> {} @@ "all" :> {"n1", "n2"} @@ "rack" :> {"n1", "n2"}
SlurmCommands ==
  "d1" :> {SlurmCommand("drain", {"n1"}, "r1", FALSE), SlurmCommand("drain", {"rack"}, "r1", FALSE),
           SlurmCommand("resume", {"all"}, None, FALSE)}
  @@ "d2" :> ({SlurmCommand("power", {"n1"}, None, l) : l \in BOOLEAN}
              \cup {SlurmCommand("power", {"n2"}, None, FALSE),
                    SlurmCommand("resume", {"n1"}, None, FALSE)})

SlurmValues ==
  [Nodes |-> {"n1", "n2"}, Words |-> {"rack", "all"}, Reads |-> ReadAs,
   Unlisted |-> {"n2"}, Desks |-> {"d1", "d2"}, Asked |-> SlurmCommands,
   Reasons |-> {"r1", "r2"}, Turns |-> 2]

(***************************************************************************)
(* Two clusters, two accounts, and two desks that add a user to them.      *)
(***************************************************************************)
AccountCommands ==
  "d1" :> [verb : {"add"}, account : {"a1"}, default : {"a1", "a2", None}]
  @@ "d2" :> [verb : {"add", "default"}, account : {"a2"}, default : {"a1", None}]

AccountValues ==
  [Clusters |-> {"here", "other"}, Here |-> "here", Accounts |-> {"a1", "a2"},
   Desks |-> {"d1", "d2"}, Asked |-> AccountCommands, Losses |-> 2]

(***************************************************************************)
(* Two nodes and a machine of DHCP only; two desks.  No address of the     *)
(* inventory is another node's in DHCP, but for SharedWorlds.              *)
(***************************************************************************)
Declared(node, by, addrs) == [node |-> node, by |-> by, addrs |-> addrs]
BootRule(nodes, path, static) == [nodes |-> nodes, path |-> path, static |-> static]
World(address, dhcp, rules) ==
  [address |-> address, dhcp |-> dhcp, paths |-> "n1" :> None @@ "n2" :> "p2", rules |-> rules]
BootCommand(verb, nodes, path, persistent) ==
  [verb |-> verb, nodes |-> nodes, path |-> path, persistent |-> persistent]

ByName(n, a) == Declared(n, "name", {a})
Rules == {BootRule({"n1"}, "p1", TRUE), BootRule({"n2"}, "p1", FALSE)}
QuietWorlds ==
  {World("n1" :> "a1" @@ "n2" :> None,
         {ByName("n2", "a2"), Declared("n2", "interface", {"a3"}), ByName("s", "a3")}, Rules),
   World("n1" :> "a1" @@ "n2" :> None, {ByName("n2", "a2"), ByName("s", "a2")}, {}),
   World("n1" :> None @@ "n2" :> None,
         {ByName("n1", "a1"), ByName("n1", "a3"), ByName("n2", "a2")}, Rules),
   World("n1" :> None @@ "n2" :> None, {ByName("n1", "a1"), ByName("n2", "a2")},
         Rules \cup {BootRule({"n1", "n2"}, "p2", FALSE)})}
SharedWorlds == {World("n1" :> "a2" @@ "n2" :> None, {ByName("n2", "a2")}, Rules)}
BootCommands ==
  "d1" :> {BootCommand("set", {"n1", "n2"}, None, FALSE), BootCommand("set", {"n2"}, "p1", FALSE),
           BootCommand("unset", {"n2"}, None, FALSE)}
  @@ "d2" :> {BootCommand("unset", {"n1"}, None, FALSE), BootCommand("set", {"n1"}, "p2", TRUE),
              BootCommand("grub_set", {"n2"}, "p1", FALSE), BootCommand("set", {"n2"}, "p1", FALSE),
              BootCommand("grub_unset", {"n1"}, None, FALSE)}

BootValues(worlds) ==
  [Nodes |-> {"n1", "n2"}, Machines |-> {"n1", "n2", "s"}, Worlds |-> worlds,
   Paths |-> {"p1", "p2"}, Suffix |-> TRUE, Desks |-> {"d1", "d2"}, Asked |-> BootCommands]
QuietBoot == BootValues(QuietWorlds)
SharedBoot == BootValues(SharedWorlds)

(***************************************************************************)
(* Documents of two files, with two contexts and their clusters, a context *)
(* that a second file gives again, a workstation by name and by default,   *)
(* values set to null, a document twice, and keys that are none.           *)
(***************************************************************************)
Fanout == <<"fanout", "max">>
SshKeys == <<"ssh">>
Binary == <<"ssh", "binary">>
KnownHosts == <<"ssh", "knownHostsFile">>
Sets(path, value) == [path |-> path, value |-> value]
Document(file, kind, name, body, overrides, site, contexts, current) ==
  [file |-> file, kind |-> kind, name |-> name, body |-> body, overrides |-> overrides,
   site |-> site, contexts |-> contexts, current |-> current]
Site(file, body) == Document(file, "Site", "s", body, <<>>, "", <<>>, "")
Cluster(name, overrides) == Document(1, "Cluster", name, <<>>, overrides, "s", <<>>, "")
Workstation(name, overrides) == Document(1, "Workstation", name, <<>>, overrides, "", <<>>, "")
Contexts(file, contexts, current) ==
  Document(file, "Config", "", <<>>, <<>>, "", contexts, current)
Context(name, cluster, overrides) ==
  [name |-> name, cluster |-> cluster, overrides |-> overrides]

TheSite == Site(1, <<Sets(Binary, "a"), Sets(KnownHosts, "a"), Sets(Fanout, "a")>>)
C1 == Cluster("c", <<Sets(SshKeys, "null")>>)
C2 == Cluster("c2", <<Sets(KnownHosts, "x")>>)
Two == Contexts(1, <<Context("p", "c", <<Sets(Binary, "p")>>), Context("q", "c2", <<>>)>>, "p")
Again == Contexts(2, <<Context("p", "c2", <<Sets(KnownHosts, "p2")>>)>>, "")
Here == Workstation("h", <<Sets(Fanout, "w")>>)
AnyHere == Workstation("", <<Sets(KnownHosts, "w")>>)
TheTrees ==
  {<<TheSite, C1, C2, Two, Here>>, <<TheSite, C1, C2, Two, AnyHere, Again>>,
   <<TheSite, C1, C2, Again, AnyHere, Here>>, <<TheSite, C1, C2, Two, AnyHere, AnyHere>>,
   <<TheSite, C1, Two, Site(2, <<Sets(Binary, "b")>>), C2>>,
   <<TheSite, C1, Contexts(1, <<Context("p", "c", <<Sets(<<"nope">>, "p")>>)>>, "")>>,
   <<TheSite, C1, Contexts(1, <<Context("p", "c", <<>>), Context("p", "c2", <<>>)>>, "p")>>}
TheGivens ==
  [context : {"", "q", "r"}, env : {<<>>, <<Sets(Fanout, "e"), Sets(KnownHosts, "e")>>},
   set : {<<>>, <<Sets(SshKeys, "s"), Sets(Binary, "s")>>, <<Sets(<<"no">>, "s")>>},
   fanout : BOOLEAN]

ConfigValues ==
  [Trees |-> TheTrees, Givens |-> TheGivens, Host |-> "h",
   Valid |-> {Fanout, SshKeys, Binary, KnownHosts}]

(***************************************************************************)
(* Three calls, two of one cluster, and two files, one of which has to     *)
(* exist, and which are edited twice, so that a call reads one as before   *)
(* both edits and the other as after.                                      *)
(***************************************************************************)
CacheValues ==
  [Files |-> {"f", "g"}, Named |-> {"f"}, Calls |-> {c1, c2, "c3"},
   ClusterOf |-> c1 :> "k" @@ c2 :> "k" @@ "c3" :> "l", Edits |-> 2]

(***************************************************************************)
(* Inventories of two nodes and a server: identifiers that clash, a        *)
(* machine written twice, an address of two machines; and each two names   *)
(* that may be typed, as host names, addresses, names of service           *)
(* processors and other spellings.                                         *)
(***************************************************************************)
Name(host, pad, domain, look) == [host |-> host, pad |-> pad, domain |-> domain, look |-> look]
Entry(nodes, default, rack, attr, ids) ==
  [nodes |-> nodes, default |-> default, rack |-> rack, attr |-> attr, ids |-> ids]
Of(nodes, ids) == Entry(nodes, Unset, "", Unset, ids)
NamingRule(fqdn, bmc) == [fqdn |-> fqdn, bmc |-> bmc]
Selection(arg, nodes, flag) == [arg |-> arg, nodes |-> nodes, flag |-> flag]

exe0001 == Name("exe1", 4, "", "plain")
exe1 == Name("exe1", 1, "", "plain")
exe0004 == Name("exe4", 4, "", "plain")
exe4 == Name("exe4", 1, "", "plain")
wlm1 == Name("wlm1", 1, "", "plain")
ip1 == Name("ip1", 0, "address", "plain")
Bmc(host, pad) == Name(host, pad, "bmc", "plain")
NamingRules ==
  [h \in {"exe1", "exe4"} |-> NamingRule("node", "bmc")] @@ "wlm1" :> NamingRule("srv", "")
  @@ [h \in {"ip1", "ip2", "other"} |-> NamingRule("", "")]

TheDocuments ==
  {<<Entry(<<exe0001, exe0004>>, "R1", "", Unset, Nothing),
     Entry(<<exe0001>>, Unset, "R2", Unset, "bmcAddress" :> exe4),
     Entry(<<wlm1>>, Unset, "R1", "R1", "address" :> ip1)>>,
   <<Entry(<<exe0001, exe0004>>, Unset, "R1", Unset, Nothing),
     Entry(<<exe0004>>, Unset, "", "", "cid" :> "c1" @@ "address" :> ip1),
     Of(<<exe0004>>, "macs" :> "m1"), Of(<<exe0001>>, "bmcAddress" :> Bmc("exe4", 1))>>,
   <<Of(<<exe0001, exe0004>>, Nothing), Of(<<exe0001>>, "address" :> ip1),
     Of(<<exe0004>>, "bmcAddress" :> ip1)>>,
   <<Of(<<exe0001, exe0004>>, Nothing), Of(<<exe0001>>, "address" :> ip1),
     Of(<<exe0004>>, "bmcAddress" :> ip1),
     Of(<<exe0001>>, "address" :> Name("ip2", 0, "address", "plain"))>>,
   <<Of(<<exe0001>>, Nothing), Of(<<exe1>>, Nothing)>>,
   <<Of(<<exe0001>>, Nothing), Of(<<wlm1, exe0001>>, "address" :> ip1)>>,
   <<Entry(<<exe0001>>, Unset, "R1", "R2", Nothing)>>,
   <<Of(<<Name("exe1", 4, "", "capitals")>>, Nothing)>>,
   <<Of(<<>>, Nothing)>>,
   <<Of(<<exe0001, exe0004>>, Nothing), Of(<<exe0004>>, "bmcAddress" :> exe0001),
     Of(<<exe0001>>, "bmcAddress" :> Name("exe4", 4, "node", "plain"))>>,
   <<Of(<<exe0001>>, "bmcAddress" :> exe4), Of(<<wlm1>>, Nothing),
     Of(<<Name("wlm1", 1, "srv", "plain")>>, "address" :> ip1)>>}

Typed ==
  {Name("exe1", 4, "", "capitals"), exe1, exe0004, exe4, Bmc("exe4", 1), Bmc("exe1", 1),
   Name("exe1", 4, "node", "dot"), Name("exe4", 4, "node", "plain"),
   Name("exe1", 4, "other", "plain"), ip1, wlm1, Name("wlm1", 1, "srv", "plain"),
   Name("wlm1", 2, "srv", "plain"), Name("other", 0, "", "plain")}
TheSelections ==
  {Selection(a, {}, FALSE) : a \in {S \in SUBSET Typed : Cardinality(S) <= 2}}
  \cup {Selection({exe0004}, {exe0001}, f) : f \in BOOLEAN}
  \cup {Selection({}, {exe0001}, TRUE)}

InventoryValues ==
  [Documents |-> TheDocuments, RuleOf |-> NamingRules, Selections |-> TheSelections]

(***************************************************************************)
(* Two processes of two sites, a gateway and a hub behind it; jump hosts   *)
(* in a circle, roles that share a host, options of a role and of all      *)
(* hosts that would change what is trusted, and an included file that      *)
(* does.                                                                   *)
(***************************************************************************)
Role(host, jump, master, legacy, options) ==
  [host |-> host, jump |-> jump, master |-> master, legacy |-> legacy, options |-> options]
SshContext(known, strict, controlPath, legacy, options, roles) ==
  [known |-> known, strict |-> strict, controlPath |-> controlPath, legacy |-> legacy,
   options |-> options, roles |-> roles]
SiteA(roles) == SshContext("siteA", "yes", Unset, FALSE, <<>>, roles)
SiteB(roles) == SshContext("siteB", "yes", Unset, FALSE, <<>>, roles)
Gateway(options) == Role("gw", <<>>, TRUE, FALSE, options)
Hub(jump) == Role("hub", jump, FALSE, TRUE, <<>>)
GwAndHub == "gateway" :> Gateway(<<>>) @@ "hub" :> Hub(<<"gateway">>)
Far(hub, jump) ==
  "gateway" :> Gateway(<<>>) @@ "hub" :> Role("hub", jump, TRUE, TRUE, <<>>)
  @@ "far" :> Role("node", <<hub>>, FALSE, FALSE, <<>>)
Everyone(context, jump) == [context EXCEPT !.options = <<Line("proxyjump", jump)>>]
SshContexts ==
  "p1" :> {SiteA(GwAndHub),
           [SiteA(GwAndHub) EXCEPT !.controlPath = "cp", !.options = <<Line("ciphers", "c")>>],
           [SiteA(GwAndHub) EXCEPT !.legacy = TRUE,
                                   !.options = <<Line("acceptedalgorithms", "+x")>>],
           SiteA("gateway" :> Role("gw", <<"hub">>, TRUE, FALSE, <<>>)
                 @@ "hub" :> Hub(<<"gw">>)),
           SiteA("gateway" :> Role("gw", <<"hub">>, TRUE, FALSE, <<>>)
                 @@ "hub" :> Hub(<<"node", "gw">>)),
           Everyone(SiteA(GwAndHub), <<"hub">>), Everyone(SiteA("hub" :> Hub(<<>>)), <<>>),
           SiteA(Far("hub", <<"gateway", "node">>)), SiteA(Far("hub", <<"gateway">>)),
           SiteA("gateway" :> Gateway(<<>>) @@ "again" :> Role("gw", <<"hub">>, TRUE, FALSE, <<>>)
                 @@ "hub" :> Hub(<<>>)),
           SiteA("gateway" :> Role(Unset, <<>>, FALSE, FALSE, <<>>) @@ "hub" :> Hub(<<"gateway">>))}
  @@ "p2" :> {SiteB(GwAndHub), SiteA(GwAndHub), [SiteA(GwAndHub) EXCEPT !.strict = "accept-new"],
              [SiteB(GwAndHub) EXCEPT !.options = <<Line("userknownhosts", "other")>>],
              SiteB("gateway" :> Gateway(<<Line("knownhostscommand", "prog")>>)),
              [SiteB("gateway" :> Gateway(<<Line("port", "22")>>)) EXCEPT !.controlPath = "cp"]}
TheIncluded ==
  {<<>>,
   <<[host |-> "*",
      lines |-> <<Line("userknownhosts", "own"), Line("knownhostscommand", "prog"),
                  Line("controlmaster", "auto"), Line("stricthostkeychecking", "no")>>]>>,
   <<[host |-> "gw", lines |-> <<Line("proxyjump", <<"node">>)>>],
     [host |-> "*", lines |-> <<Line("stricthostkeychecking", "no")>>]>>}

SshValues ==
  [Processes |-> {"p1", "p2"}, Settings |-> SshContexts,
   Hosts |-> {"gw", "hub", "node"}, IncludedTexts |-> TheIncluded]

(***************************************************************************)
(* Two commands and two hosts, 1 and 4; 2 is another spelling of the first *)
(* and 3 its short name; files with each kind of line.                     *)
(***************************************************************************)
KeyPattern(n, kind, name) == [not |-> n, kind |-> kind, name |-> name]
Plain(h) == KeyPattern(FALSE, "plain", h)
KeyText ==
  [p \in [not : BOOLEAN, kind : {"plain", "hash", "wild"}, name : 1..4] |->
     (IF p.not THEN 0 ELSE IF p.kind = "wild" THEN 10 ELSE IF p.kind = "plain" THEN 20 ELSE 30)
     + p.name]
KeyLine(marker, hosts, type, key, notes) ==
  [marker |-> marker, hosts |-> hosts, type |-> type, key |-> key, notes |-> notes]
Own == KeyLine("", <<Plain(1)>>, 1, "k1", <<"own">>)
Both == KeyLine("", <<Plain(4), Plain(1)>>, 2, "k2", <<"both">>)
Spelt == KeyLine("", <<Plain(2), Plain(3)>>, 1, "k2", <<"spelt">>)
Hashed == KeyLine("", <<KeyPattern(FALSE, "hash", 4)>>, 1, "k1", <<>>)
Wild ==
  KeyLine("", <<KeyPattern(FALSE, "wild", 1), KeyPattern(TRUE, "plain", 4)>>, 1, "k1", <<"wild">>)
Bad == KeyLine("@revoked", <<Plain(1)>>, 1, "k2", <<"bad">>)
Authority == KeyLine("@cert-authority", <<KeyPattern(FALSE, "wild", 1)>>, 1, "k1", <<>>)
Fourth == KeyLine("", <<Plain(4)>>, 1, "k2", <<"other">>)
Bare(line) == [line EXCEPT !.notes = <<>>]
KeyFile(header, lines) == [header |-> header, lines |-> lines]
KeyFiles ==
  {KeyFile(<<>>, <<>>),
   KeyFile(<<"title">>, <<Hashed, Own, Both>>),
   KeyFile(<<"title">>, <<Bare(Bad), Fourth, Own>>),
   KeyFile(<<"title">>, <<Bare(Fourth), Spelt, Hashed, Own>>),
   KeyFile(<<>>, <<Bare(Both), Bad, Wild>>),
   KeyFile(<<"title">>, <<Authority, Both, Spelt, Hashed>>)}
KeyLists == {<<3>>, <<4, 1>>, <<2, 1>>, <<1, 4, 2>>, <<3, 4, 1, 3>>}

HostKeysValues ==
  [Names |-> 1..4, Lower |-> <<1, 1, 3, 4>>, Text |-> KeyText, Commands |-> {c1, c2},
   Hosts |-> {1, 4}, Removals |-> {<<1, 3>>, <<1, 3, 4, 4>>}, Files |-> KeyFiles,
   Titles |-> {"title"}, Keys |-> {"k1", "k2"}, Lists |-> KeyLists, MaxRekeys |-> 1,
   MaxEdits |-> 1]

(***************************************************************************)
(* Three ticks for the command, two to reach the node, one of grace.       *)
(***************************************************************************)
SessionValues ==
  [Timeout |-> 3, Grace |-> 1, Reach |-> 2, Statuses |-> {0, 1, 124, 255}]

(***************************************************************************)
(* Two names and two servers that may be silent, failing or gone, and      *)
(* change once; an alias with an address of each type, aliases in a        *)
(* circle, and a name that is not there.                                   *)
(***************************************************************************)
Zone(known, alias, a, aaaa, reverse) ==
  [known |-> known, alias |-> alias, a |-> a, aaaa |-> aaaa, reverse |-> reverse]
NoAddress == "x" :> {} @@ "y" :> {}
HasHost(a) == [b \in {"a1", "a2"} |-> IF b \in a THEN {"h"} ELSE {}]
TheZones ==
  {Zone({"x", "y"}, "x" :> "y" @@ "y" :> None, [NoAddress EXCEPT !["y"] = {"a1"}],
        [NoAddress EXCEPT !["y"] = {"a2"}], HasHost({"a1"})),
   Zone({"x", "y"}, "x" :> "y" @@ "y" :> "x", NoAddress, NoAddress, HasHost({"a1"})),
   Zone({"x"}, "x" :> None @@ "y" :> None, [NoAddress EXCEPT !["x"] = {"a1", "a2"}],
        NoAddress, HasHost({"a1", "a2"}))}

DnsValues ==
  [Names |-> {"x", "y"}, Zones |-> TheZones, Servers |-> 2, Limit |-> 2,
   maxCNAMEs |-> 3, Large |-> {"x"}, Turns |-> 1]

(***************************************************************************)
(* exec and copy: two nodes, one an address with colons; a protected node; *)
(* a payload of two parts; paths with a colon, and ones no two scp read    *)
(* alike.                                                                  *)
(***************************************************************************)
Exec(stdin, confirm) ==
  [verb |-> "exec", nodes |-> {"n1", "n2"}, stdin |-> stdin, confirm |-> confirm,
   force |-> FALSE, yes |-> FALSE, tty |-> TRUE, dry |-> FALSE, max |-> 2, slash |-> FALSE,
   local |-> <<"file">>, remote |-> "plain"]
CopyOf(verb, local, max) ==
  [Exec(FALSE, FALSE) EXCEPT !.verb = verb, !.local = local, !.max = max, !.slash = TRUE]
ColonPath == <<"n3", ":", "file">>
WithProtected == {"n1", "p1"}
RunCommands ==
  {Exec(TRUE, FALSE), Exec(FALSE, FALSE), [Exec(FALSE, TRUE) EXCEPT !.max = 1],
   [Exec(TRUE, TRUE) EXCEPT !.yes = TRUE, !.nodes = {"n2"}], Exec(TRUE, TRUE),
   [Exec(TRUE, FALSE) EXCEPT !.dry = TRUE], [Exec(TRUE, FALSE) EXCEPT !.nodes = WithProtected],
   [Exec(FALSE, FALSE) EXCEPT !.nodes = WithProtected, !.force = TRUE, !.max = 1],
   CopyOf("upload", ColonPath, 2), CopyOf("download", ColonPath, 2),
   [CopyOf("upload", <<"-", "file">>, 1) EXCEPT !.yes = TRUE, !.tty = FALSE],
   [CopyOf("upload", <<"file">>, 1) EXCEPT !.tty = FALSE],
   [CopyOf("upload", <<"file">>, 1) EXCEPT !.remote = "shell_syntax"],
   [CopyOf("upload", <<"file">>, 1) EXCEPT !.nodes = WithProtected],
   [CopyOf("download", <<"dir", "/", "file">>, 1) EXCEPT !.nodes = {"n1"}, !.slash = FALSE],
   [CopyOf("download", <<"file">>, 1) EXCEPT !.slash = FALSE]}

RunsValues ==
  [Nodes |-> {"n1", "n2", "p1"}, Targets |-> <<"n1", "n2", "p1">>,
   HostOf |-> "n1" :> <<"n1">> @@ "n2" :> <<"fd00", ":", "7">> @@ "p1" :> <<"p1">>,
   Protected |-> {"p1"}, Given |-> RunCommands, Parts |-> 2, Outputs |-> {"", "x"}]
=============================================================================
