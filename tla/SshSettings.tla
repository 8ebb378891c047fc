----------------------------- MODULE SshSettings -----------------------------
(***************************************************************************)
(* The ssh configuration every connection is made with.  A process renders *)
(* the settings of its context into a file of the state directory that     *)
(* other processes share, and ssh reads that file, and the files it        *)
(* includes, anew for each connection and each jump host; a connection may *)
(* go through a master an earlier one left open, which checks no host key. *)
(* A setting is a keyword and a value; ssh keeps the first value it reads. *)
(***************************************************************************)
EXTENDS Naturals, Sequences, FiniteSets, SequencesExt

CONSTANTS
  Processes,
  Settings,     \* of a process, the settings its context may have
  Hosts,        \* hosts that are connected to, jump hosts among them
  IncludedTexts \* what the administrator may write into the included file

Line(key, value) == [key |-> key, value |-> value]
Block(host, lines) == [host |-> host, lines |-> lines]
\* A role: its host, its proxyJump, and the other settings of its block.
Role(host, jump, master, legacy, options) ==
  [host |-> host, jump |-> jump, master |-> master, legacy |-> legacy, options |-> options]

AnyHost == "*"
Unset == "unset"
Nothing == <<>>

IsSequence(t) == t \in Seq(Range(t))

SshConstants ==
  /\ \A t \in IncludedTexts : IsSequence(t)
  /\ \A p \in Processes : \A s \in Settings[p] :
       /\ IsSequence(s.options)
       /\ \A r \in DOMAIN s.roles :
            /\ IsSequence(s.roles[r].options) /\ IsSequence(s.roles[r].jump)
            /\ s.roles[r].host \in Hosts \cup {Unset}

VARIABLES
  files,        \* of a path in the state directory, what the file holds
  included,     \* the blocks of the file that is included
  masters,      \* of a control socket, the trust its connection was opened under
  pc, settings,
  client,       \* of a process, whether its ssh knows KnownHostsCommand
  config,       \* of a process, the path of its configuration
  conn          \* the latest connection: who made it, where, how its host key was checked

vars == <<files, included, masters, pc, settings, client, config, conn>>

Put(h, k, v) == [x \in DOMAIN h \cup {k} |-> IF x = k THEN v ELSE h[x]]
Drop(h, k) == [x \in DOMAIN h \ {k} |-> h[x]]
Empty == [x \in {} |-> Unset]
Go(p, at) == pc' = [pc EXCEPT ![p] = at]

(***************************************************************************)
(* Jump hosts.  An element names a role, the host of one, or a host.       *)
(***************************************************************************)
Names(s) == DOMAIN s.roles
WithHost(s, h) == {r \in Names(s) : s.roles[r].host = h}
HopRoles(s, e) == IF e \in Names(s) THEN {e} ELSE WithHost(s, e)
HopHost(s, e) == IF e \in Names(s) THEN s.roles[e].host ELSE e
Resolves(s, e) == IF e \in Names(s) THEN s.roles[e].host # Unset ELSE e \in Hosts
Chain(s, r) == [i \in DOMAIN s.roles[r].jump |-> HopHost(s, s.roles[r].jump[i])]
ChainOf(s, h) == IF WithHost(s, h) = {} THEN <<>> ELSE Chain(s, CHOOSE r \in WithHost(s, h) : TRUE)

NextRoles(s, r) == UNION {HopRoles(s, e) : e \in Range(s.roles[r].jump)}

\* The search comes back to a role it is at: among some roles each leads to another.
CyclicJumps(s) ==
  \E C \in SUBSET Names(s) : C # {} /\ \A r \in C : NextRoles(s, r) \cap C # {}

\* From a host to the first hop of its chain, on to that of the hop, until
\* there is no chain or the host was seen.
FirstHops(s, h) ==
  {g \in Hosts :
     \A S \in SUBSET Hosts :
       h \in S /\ (\A x \in S : ChainOf(s, x) # <<>> => ChainOf(s, x)[1] \in S) => g \in S}

\* Client.JumpHosts: the chains of all of them.
JumpHosts(s, h) == UNION {Range(ChainOf(s, g)) : g \in FirstHops(s, h)}

(***************************************************************************)
(* The blocks of the generated file.                                       *)
(***************************************************************************)
\* canonicalKeyword: two names of one option.
Keyword(key) == IF key = "acceptedalgorithms" THEN "acceptedkeytypes" ELSE key
Trusting == {"userknownhosts", "globalknownhosts", "knownhostscommand", "stricthostkeychecking",
             "hostkeyalias", "controlmaster", "controlpath"}
OfARole == Trusting \cup {"user", "proxyjump", "forwardagent"}
Keys(lines) == {Keyword(lines[i].key) : i \in DOMAIN lines}
If(condition, lines) == IF condition THEN lines ELSE <<>>

Legacy == <<Line("acceptedkeytypes", "+ssh-rsa"), Line("hostkeyalgorithms", "+ssh-rsa")>>

\* The socket is named for the host alone.
ControlPathByHost(s) == <<"cm">>

\* The default name carries a digest of the host key file and the strictness.
ControlPath(s) == IF s.controlPath # Unset THEN <<s.controlPath>> ELSE <<"cm", s.known, s.strict>>

RoleLines(s, r) ==
  LET role == s.roles[r] IN
  If(role.jump # <<>>, <<Line("proxyjump", Chain(s, r))>>)
    \o If(role.master, <<Line("controlmaster", "auto"), Line("controlpath", ControlPath(s))>>)
    \o If(role.legacy, Legacy)

GlobalLines(s, command) ==
  <<Line("userknownhosts", s.known), Line("globalknownhosts", "none")>>
    \o If(command, <<Line("knownhostscommand", "none")>>)
    \o <<Line("stricthostkeychecking", s.strict), Line("controlmaster", "no"), Line("controlpath", "none")>>
    \o If(s.legacy, Legacy)

\* block.options: what an option may not set, and may not set again.
Refuses(lines, options, refused) ==
  Keys(options) \cap (refused \cup Keys(lines)) # {}

Lines(s, r) == RoleLines(s, r) \o s.roles[r].options

\* Options.Validate; roles of one host share its block.
Valid(s) ==
  /\ \A r \in Names(s) : /\ \A i \in DOMAIN s.roles[r].jump : Resolves(s, s.roles[r].jump[i])
                         /\ ~Refuses(RoleLines(s, r), s.roles[r].options, OfARole)
  /\ ~Refuses(GlobalLines(s, TRUE), s.options, Trusting)
  /\ \A r, q \in Names(s) : s.roles[r].host = s.roles[q].host => Lines(s, r) = Lines(s, q)
  /\ ~CyclicJumps(s)

\* generateConfig: the roles' blocks, the block of every host, the included file.
Rendered(s, command) ==
  [blocks |-> [h \in {g \in Hosts : WithHost(s, g) # {}} |->
                 Lines(s, CHOOSE r \in WithHost(s, h) : TRUE)],
   rest |-> <<Block(AnyHost, GlobalLines(s, command) \o s.options)>>, includes |-> TRUE]

\* The name is a digest of the content.
PathOf(data) == data

(***************************************************************************)
(* A process: New and Validate, ssh -V, writeConfig, and connections.      *)
(***************************************************************************)
Validate(p) ==
  /\ pc[p] = "new"
  /\ \E s \in Settings[p] :
       /\ settings' = [settings EXCEPT ![p] = s]
       /\ IF Valid(s) THEN Go(p, "version") ELSE Go(p, "refused")
  /\ UNCHANGED <<files, included, masters, client, config, conn>>

\* A version that cannot be told counts as one that knows the keyword, and
\* a client that does not know it refuses the file; an interrupt is an error.
AskVersion(p) ==
  /\ pc[p] = "version"
  /\ \/ Go(p, "write") /\ \E knows \in BOOLEAN : client' = [client EXCEPT ![p] = knows]
     \/ Go(p, "refused") /\ UNCHANGED client
  /\ UNCHANGED <<files, included, masters, settings, config, conn>>

WriteConfig(p) ==
  /\ pc[p] = "write"
  /\ LET data == Rendered(settings[p], client[p]) IN
       /\ files' = Put(files, PathOf(data), data) /\ config' = [config EXCEPT ![p] = PathOf(data)]
  /\ Go(p, "ready")
  /\ UNCHANGED <<included, masters, settings, client, conn>>

\* The lines of a block with a keyword.
Saying(b, key) == {i \in DOMAIN b.lines : Keyword(b.lines[i].key) = key}

OwnBlock(data, h) == IF h \in DOMAIN data.blocks THEN <<Block(h, data.blocks[h])>> ELSE <<>>

\* ssh: the first value it obtains for a keyword.
Effective(data, h, key, default) ==
  LET read == OwnBlock(data, h) \o data.rest \o included
      saying == {i \in DOMAIN read : read[i].host \in {h, AnyHost} /\ Saying(read[i], key) # {}}
      first == read[Min(saying)] IN
  IF saying = {} THEN default ELSE first.lines[Min(Saying(first, key))].value

Trust(data, h, knows) ==
  [file |-> Effective(data, h, "userknownhosts", "own"),
   global |-> Effective(data, h, "globalknownhosts", "system"),
   command |-> IF knows THEN Effective(data, h, "knownhostscommand", "none") ELSE "none",
   strict |-> Effective(data, h, "stricthostkeychecking", "ask")]

\* One connection of an ssh of this process: to the target, or to a jump host.
Connect(p, h) ==
  /\ pc[p] = "ready"
  /\ LET data == files[config[p]]
         multiplexed == Effective(data, h, "controlmaster", "no") = "auto"
         socket == <<Effective(data, h, "controlpath", Nothing), h>>
         trust == Trust(data, h, client[p]) IN
       IF multiplexed /\ socket \in DOMAIN masters
         THEN conn' = [by |-> p, host |-> h, trust |-> masters[socket]] /\ UNCHANGED masters
         ELSE /\ conn' = [by |-> p, host |-> h, trust |-> trust]
              /\ masters' = IF multiplexed THEN Put(masters, socket, trust) ELSE masters
  /\ UNCHANGED <<files, included, pc, settings, client, config>>

EndMaster ==
  /\ \E s \in DOMAIN masters : masters' = Drop(masters, s)
  /\ UNCHANGED <<files, included, pc, settings, client, config, conn>>

EditIncluded ==
  /\ included' \in IncludedTexts \ {included}
  /\ UNCHANGED <<files, masters, pc, settings, client, config, conn>>

NoConn == [by |-> Unset, host |-> Unset, trust |-> Empty]

Init ==
  /\ files = Empty /\ included = <<>> /\ masters = Empty /\ conn = NoConn
  /\ pc = [p \in Processes |-> "new"] /\ client = [p \in Processes |-> TRUE]
  /\ settings \in [Processes -> {CHOOSE s \in UNION {Settings[p] : p \in Processes} : TRUE}]
  /\ config = [p \in Processes |-> Nothing]

Next ==
  \/ \E p \in Processes : Validate(p) \/ AskVersion(p) \/ WriteConfig(p) \/ \E h \in Hosts : Connect(p, h)
  \/ EndMaster \/ EditIncluded

Spec == Init /\ [][Next]_vars

\* Types; a process that is ready has a file.
TypeOK ==
  /\ pc \in [Processes -> {"new", "version", "write", "ready", "refused"}]
  /\ client \in [Processes -> BOOLEAN]
  /\ \A p \in Processes : pc[p] = "ready" => config[p] \in DOMAIN files

SiteTrust(p) ==
  [file |-> settings[p].known, global |-> "none", command |-> "none", strict |-> settings[p].strict]

\* Every connection's host key was checked against the host key file of its
\* own context and no other source, as strictly as that context says: what
\* other processes write, what the included file says, and what masters are
\* open, change nothing.  A site that names its control sockets itself has
\* them shared as it names them.  (generateConfig, writeConfig, controlPath)
TrustIsOwn ==
  conn.by # Unset /\ settings[conn.by].controlPath = Unset => conn.trust = SiteTrust(conn.by)

(***************************************************************************)
(* The inductive invariant: a file in the state directory is what its name *)
(* says, an open master that is named by a site's rules was opened under   *)
(* them, and the settings of a process stay what they were.                *)
(***************************************************************************)
FileInv == \A path \in DOMAIN files : files[path] = path

SettingInv ==
  \A p \in Processes :
    /\ pc[p] \in {"version", "write", "ready"} => settings[p] \in Settings[p] /\ Valid(settings[p])
    /\ pc[p] = "ready" => config[p] = Rendered(settings[p], client[p])

TrustOf(known, strict) == [file |-> known, global |-> "none", command |-> "none", strict |-> strict]

MasterInv ==
  \A socket \in DOMAIN masters :
    Len(socket[1]) = 3 => masters[socket] = TrustOf(socket[1][2], socket[1][3])

ConnInv == conn.by # Unset => conn.by \in Processes /\ pc[conn.by] = "ready"

Inv ==
  /\ TypeOK /\ DOMAIN settings = Processes /\ DOMAIN config = Processes
  /\ included \in IncludedTexts \cup {<<>>}
  /\ FileInv /\ SettingInv /\ MasterInv /\ ConnInv /\ TrustIsOwn

(***************************************************************************)
(* The way to a host, as ssh goes it by the file and what it includes: to  *)
(* the last hop with the hops before it as its chain, and to a first hop   *)
(* by what is said of that hop itself.                                     *)
(***************************************************************************)
Jump(p, h) == Effective(files[config[p]], h, "proxyjump", Nothing)

Reaches(p, h) ==
  {g \in Hosts :
     \A S \in SUBSET Hosts :
       h \in S /\ (\A x \in S : Jump(p, x) # Nothing => Jump(p, x)[1] \in S) => g \in S}

Connects(p, h) ==
  LET through == {g \in Reaches(p, h) : Jump(p, g) # Nothing} IN
  Reaches(p, h) \cup UNION {Range(Tail(Jump(p, g))) : g \in through}

\* ssh comes to a host that is reached directly.
Ends(p, h) == \E g \in Reaches(p, h) : Jump(p, g) = Nothing

\* A host no role gives a jump, with one of ssh.options or of an included file.
JumpsElsewhere(p, g) == ChainOf(settings[p], g) = <<>> /\ Jump(p, g) # Nothing

\* The hosts a session is counted on are hosts ssh connects to, whatever else
\* is set; and as long as ssh comes to no host whose jump is set elsewhere
\* than in a role, which the code does not know (sshconfig.go:598), no
\* connection jumps for ever and ssh connects to no host that is not counted.
\* (checkJumpCycles, resolveJumps and JumpHosts against the rendered file)
JumpsEnd ==
  \A p \in Processes : pc[p] = "ready" => \A h \in Hosts :
    /\ JumpHosts(settings[p], h) \cup {h} \subseteq Connects(p, h)
    /\ (\A g \in Reaches(p, h) : ~JumpsElsewhere(p, g)) =>
         Ends(p, h) /\ Connects(p, h) = JumpHosts(settings[p], h) \cup {h}
=============================================================================
