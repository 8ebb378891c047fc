----------------------------- MODULE BootLinks -----------------------------
(***************************************************************************)
(* The links that decide what a machine boots from the network, named      *)
(* after its address: boot set and boot unset on the PXE host, boot grub   *)
(* set and unset on the TFTP host.  The addresses come from the inventory, *)
(* else from the declarations of the DHCP server; the machines take theirs *)
(* and ask for what is named after it.                                     *)
(***************************************************************************)
EXTENDS Naturals, FiniteSets

CONSTANTS
  Nodes,        \* the nodes of the inventory
  Machines,     \* they, and machines the inventory does not hold
  Worlds,       \* what the inventory, DHCP and the rules may hold
  Paths,        \* boot paths that may be given
  Suffix,       \* services.pxesrv.staticSuffix is set
  Desks,
  Asked         \* of a desk, the commands typed there

None == "none"

Declaration(node, by, addrs) == [node |-> node, by |-> by, addrs |-> addrs]
World(address, dhcp, paths, rules) ==
  [address |-> address, dhcp |-> dhcp, paths |-> paths, rules |-> rules]
Rule(nodes, path, static) == [nodes |-> nodes, path |-> path, static |-> static]
Command(verb, nodes, path, persistent) ==
  [verb |-> verb, nodes |-> nodes, path |-> path, persistent |-> persistent]
NoCommand == Command(None, {}, None, FALSE)

Verbs == {"set", "unset", "grub_set", "grub_unset"}

BootLinksConstants ==
  /\ Nodes \subseteq Machines /\ Suffix \in BOOLEAN /\ None \notin Paths
  /\ \A w \in Worlds : Nodes \subseteq DOMAIN w.address /\ \A e \in w.dhcp : None \notin e.addrs
  /\ \A d \in Desks : \A c \in Asked[d] : c.verb \in Verbs /\ c.nodes \subseteq Nodes

VARIABLES
  world,
  exists,       \* the boot configurations on the PXE host
  once, static, \* of an address, what its links point at
  grub,
  pc, cmd,      \* of a desk, where its command is, and which it is
  links,        \* of a desk, what is to be written, by node
  row,          \* of a desk, what it reports of a node
  grants,       \* history: how often a machine was armed for one boot
  kept,         \* history: machines armed for good
  armed,        \* history: the machines questions that were answered named
  served        \* history: one-shot links a machine was given

vars == <<world, exists, once, static, grub, pc, cmd, links, row, grants, kept, armed, served>>
pxe == <<once, static, grub>>
history == <<grants, kept, armed, served>>

Addresses == DOMAIN once

(***************************************************************************)
(* Addresses.                                                              *)
(***************************************************************************)
ByName(n) == {d \in world.dhcp : d.node = n /\ d.by = "name" /\ d.addrs # {}}

\* More than one declaration, or more than one address, decides nothing.
Decided(n) == Cardinality(ByName(n)) = 1 /\ \A d \in ByName(n) : Cardinality(d.addrs) = 1

BootAddress(n) == IF Decided(n) THEN UNION {d.addrs : d \in ByName(n)} ELSE {}

\* Of an inventory node, none or one; nobody asks for another machine's.
nodeAddress(n) ==
  IF n \in Nodes /\ world.address[n] # None THEN {world.address[n]} ELSE BootAddress(n)

FromDHCP(n) == world.address[n] = None

\* Its other interfaces are its own.
dhcpHolders(n, a) == {d.node : d \in {e \in world.dhcp : e.node # n /\ a \in e.addrs}}

\* Only the nodes named are told apart.
OwnersNamed(n, a) == {}

Owners(n, a) ==
  {m \in Nodes : world.address[m] = a} \cup (IF FromDHCP(n) THEN dhcpHolders(n, a) ELSE {})

nodeAddresses(S) ==
  /\ \A n \in S : nodeAddress(n) # {} /\ \A a \in nodeAddress(n) : Owners(n, a) \subseteq {n}
  /\ \A n, m \in S : nodeAddress(n) \cap nodeAddress(m) # {} => n = m

AddressOf(n) == CHOOSE a \in nodeAddress(n) : TRUE

(***************************************************************************)
(* Boot paths: the one given, the inventory's, or the one rule's.          *)
(***************************************************************************)
Rules(n) == {r \in world.rules : n \in r.nodes}

HasPath(n, given) ==
  given # None \/ world.paths[n] # None \/ Cardinality(Rules(n)) = 1

RuleOf(n) == CHOOSE r \in Rules(n) : TRUE

PathOf(n, given) ==
  IF given # None THEN given
  ELSE IF world.paths[n] # None THEN world.paths[n] ELSE RuleOf(n).path

StaticRule(n, given) ==
  given = None /\ world.paths[n] = None /\ \E r \in Rules(n) : r.static

Link(n, c) ==
  [address |-> AddressOf(n), path |-> PathOf(n, c.path),
   mode |-> IF c.persistent \/ StaticRule(n, c.path) THEN "persistent" ELSE "once"]

resolveBootLinks(c) == [n \in c.nodes |-> Link(n, c)]

(***************************************************************************)
(* A command, from its line to the question.                               *)
(***************************************************************************)
Go(d, at) == pc' = [pc EXCEPT ![d] = at]

Refuse(d) == Go(d, "over") /\ UNCHANGED links

Type(d) ==
  /\ pc[d] = "idle" /\ Go(d, "resolve")
  /\ \E c \in Asked[d] : cmd' = [cmd EXCEPT ![d] = c]
  /\ UNCHANGED <<world, exists, pxe, links, row, history>>

Sets(c) == c.verb \in {"set", "grub_set"}

\* What a command is about: its addresses, and of boot set its paths.
Resolvable(c) ==
  /\ nodeAddresses(c.nodes)
  /\ c.verb = "set" => \A n \in c.nodes : HasPath(n, c.path)
  /\ c.verb = "set" /\ ~Suffix => \A n \in c.nodes : ~c.persistent /\ ~StaticRule(n, c.path)

Resolved(c) ==
  IF c.verb = "set" THEN resolveBootLinks(c)
  ELSE [n \in c.nodes |-> [address |-> AddressOf(n), path |-> c.path, mode |-> None]]

Resolve(d) ==
  /\ pc[d] = "resolve"
  /\ IF Resolvable(cmd[d])
     THEN /\ links' = [links EXCEPT ![d] = Resolved(cmd[d])]
          /\ Go(d, IF Sets(cmd[d]) THEN "check" ELSE "confirm")
     ELSE Refuse(d)
  /\ UNCHANGED <<world, exists, pxe, cmd, row, history>>

\* A one-shot link is refused over a persistent one.
Held(n, l) == l.mode = "once" /\ static[l.address] # None

checkBootLinks(d) ==
  LET ls == links[d] IN
  /\ pc[d] = "check"
  /\ IF \A n \in cmd[d].nodes : ls[n].path \in exists /\ ~Held(n, ls[n])
     THEN Go(d, "confirm") /\ UNCHANGED links ELSE Refuse(d)
  /\ UNCHANGED <<world, exists, pxe, cmd, row, history>>

Confirm(d) ==
  /\ pc[d] = "confirm"
  /\ \/ /\ Go(d, "write")
        /\ armed' = IF Sets(cmd[d]) THEN armed \cup cmd[d].nodes ELSE armed
     \/ Go(d, "over") /\ UNCHANGED armed
  /\ UNCHANGED <<world, exists, pxe, cmd, links, row, grants, kept, served>>

(***************************************************************************)
(* The scripts on the PXE host, one record after the other, and ln and rm  *)
(* on the TFTP host.  A record that never arrived leaves its node          *)
(* unreported, and the answer may be lost.                                 *)
(***************************************************************************)
Report(d, n, r) == row' = [row EXCEPT ![d] = [@ EXCEPT ![n] = r]]

Written(n, l) ==
  /\ once' = IF l.mode = "once" THEN [once EXCEPT ![l.address] = l.path] ELSE once
  /\ static' = IF l.mode = "persistent" THEN [static EXCEPT ![l.address] = l.path] ELSE static
  /\ grants' = IF l.mode = "once" THEN [grants EXCEPT ![n] = @ + 1] ELSE grants
  /\ kept' = IF l.mode = "persistent" THEN kept \cup {n} ELSE kept
  /\ UNCHANGED grub

Removed(n, l) ==
  /\ once' = [once EXCEPT ![l.address] = None]
  /\ static' = IF Suffix THEN [static EXCEPT ![l.address] = None] ELSE static
  /\ UNCHANGED <<grub, grants, kept>>

Grub(l, path) ==
  grub' = [grub EXCEPT ![l.address] = path] /\ UNCHANGED <<once, static, grants, kept>>

Act(d, n) ==
  LET l == links[d][n] IN
  \/ cmd[d].verb = "set" /\ Written(n, l)
  \/ cmd[d].verb = "unset" /\ Removed(n, l)
  \/ cmd[d].verb = "grub_set" /\ Grub(l, l.path)
  \/ cmd[d].verb = "grub_unset" /\ Grub(l, None)

Done(c) == IF Sets(c) THEN "set" ELSE "removed"

Record(d, n) ==
  /\ pc[d] = "write" /\ n \in cmd[d].nodes /\ row[d][n] = None
  /\ \/ Act(d, n) /\ \E r \in {Done(cmd[d]), "unknown"} : Report(d, n, r)
     \/ UNCHANGED <<pxe, grants, kept>> /\ \E r \in {"failed", "unknown"} : Report(d, n, r)
  /\ UNCHANGED <<world, exists, pc, cmd, links, armed, served>>

WriteOver(d) ==
  /\ pc[d] = "write" /\ \A n \in cmd[d].nodes : row[d][n] # None
  /\ Go(d, "over")
  /\ UNCHANGED <<world, exists, pxe, cmd, links, row, history>>

(***************************************************************************)
(* The machines: what is there under the address they boot with.  The PXE  *)
(* service removes a one-shot link it has given out.                       *)
(***************************************************************************)
Taken(m) == IF m \in Nodes THEN nodeAddress(m) ELSE UNION {d.addrs : d \in ByName(m)}

Request(m) ==
  /\ \E a \in Taken(m) :
       /\ once[a] # None /\ once' = [once EXCEPT ![a] = None]
  /\ served' = [served EXCEPT ![m] = @ + 1]
  /\ UNCHANGED <<world, exists, static, grub, pc, cmd, links, row, grants, kept, armed>>

\* boot sync, or the installer's image builder, takes a configuration away.
Vanish(p) ==
  /\ exists # {} /\ p \in exists /\ exists' = exists \ {p}
  /\ UNCHANGED <<world, pxe, pc, cmd, links, row, history>>

AllAddresses ==
  ((UNION {e.addrs : e \in UNION {w.dhcp : w \in Worlds}})
     \cup {w.address[n] : w \in Worlds, n \in Nodes}) \ {None}

Init ==
  /\ world \in Worlds /\ exists = Paths
  /\ once = [a \in AllAddresses |-> None] /\ static = once /\ grub = once
  /\ pc = [d \in Desks |-> "idle"] /\ cmd = [d \in Desks |-> NoCommand]
  /\ links = [d \in Desks |-> <<>>] /\ row = [d \in Desks |-> [n \in Nodes |-> None]]
  /\ grants = [m \in Machines |-> 0] /\ kept = {} /\ armed = {}
  /\ served = [m \in Machines |-> 0]

Next ==
  \/ \E d \in Desks :
       \/ Type(d) \/ Resolve(d) \/ checkBootLinks(d) \/ Confirm(d) \/ WriteOver(d)
       \/ \E n \in Nodes : Record(d, n)
  \/ \E m \in Machines : Request(m)
  \/ \E p \in Paths : Vanish(p)

Spec == Init /\ [][Next]_vars

(***************************************************************************)
(* Properties.                                                             *)
(***************************************************************************)
TypeOK ==
  /\ once \in [Addresses -> Paths \cup {None}] /\ static \in [Addresses -> Paths \cup {None}]
  /\ row \in [Desks -> [Nodes -> {None, "set", "removed", "failed", "unknown"}]]
  /\ pc \in [Desks -> {"idle", "resolve", "check", "confirm", "write", "over"}]
  /\ kept \subseteq Nodes /\ armed \subseteq Nodes

Finds(m) == {a \in Taken(m) : once[a] # None \/ static[a] # None \/ grub[a] # None}

\* A machine finds a link only when a question named it and was answered: a
\* link for one node never arms another that boots with its address.
OnlyNamedBoot == \A m \in Machines : Finds(m) # {} \/ served[m] > 0 => m \in armed

Apart(d, n) == \A e \in Desks \ {d} : n \notin cmd[e].nodes

\* A node that was armed for one boot, and not for good, boots so no more
\* often than it was armed; the row of a node nobody else names is true: set
\* is there, or has been given out, and removed leaves the node nothing to
\* find, neither the one-shot link nor the persistent one.
RowIsTrue(d, n) ==
  LET l == links[d][n] IN
  /\ row[d][n] = "removed" /\ cmd[d].verb = "unset" =>
       once[l.address] = None /\ static[l.address] = None
  /\ row[d][n] = "set" /\ cmd[d].verb = "set" /\ l.mode = "persistent" =>
       static[l.address] = l.path
  /\ row[d][n] = "set" /\ cmd[d].verb = "set" /\ l.mode = "once" =>
       (once[l.address] = l.path \/ served[n] > 0) /\ static[l.address] = None

LinksAreAsReported ==
  /\ \A m \in Machines : served[m] <= grants[m]
  /\ \A d \in Desks : \A n \in cmd[d].nodes : Apart(d, n) => RowIsTrue(d, n)

(***************************************************************************)
(* The inductive invariant, for worlds in which no address of the          *)
(* inventory is another machine's in DHCP.                                 *)
(***************************************************************************)
AddressesAreOwn ==
  \A w \in Worlds : \A n \in Nodes : w.address[n] # None =>
    \A e \in w.dhcp : w.address[n] \in e.addrs => e.node = n

Values ==
  /\ world \in Worlds /\ exists \subseteq Paths
  /\ once \in [AllAddresses -> Paths \cup {None}] /\ static \in [AllAddresses -> Paths \cup {None}]
  /\ grub \in [AllAddresses -> Paths \cup {None}]
  /\ DOMAIN cmd = Desks /\ DOMAIN links = Desks
  /\ grants \in [Machines -> Nat] /\ served \in [Machines -> Nat]

\* A command knows the addresses of its nodes from when it has resolved them,
\* and reports only of those it wrote.
Knows(d) == pc[d] \in {"check", "confirm", "write"} \/ \E n \in Nodes : row[d][n] # None
CommandHolds(d) ==
  /\ cmd[d] = NoCommand \/ cmd[d] \in Asked[d]
  /\ pc[d] = "idle" <=> cmd[d] = NoCommand
  /\ Knows(d) => Resolvable(cmd[d]) /\ links[d] = Resolved(cmd[d])
  /\ pc[d] \in {"idle", "resolve", "check", "confirm"} => \A n \in Nodes : row[d][n] = None
  /\ \A n \in Nodes : row[d][n] = "set" => Sets(cmd[d])
  /\ \A n \in Nodes : row[d][n] = "removed" => ~Sets(cmd[d])
  /\ pc[d] \in {"confirm", "write"} /\ Sets(cmd[d]) => \A n \in cmd[d].nodes : links[d][n].path \in Paths
  /\ pc[d] = "write" /\ Sets(cmd[d]) => cmd[d].nodes \subseteq armed
CommandInv == \A d \in Desks : CommandHolds(d)

\* The address is the node's, and no other machine takes it.
Owns(n, a) == nodeAddress(n) # {} /\ a = AddressOf(n) /\ Owners(n, a) \subseteq {n}

Linked(a) == once[a] # None \/ static[a] # None \/ grub[a] # None
OwnInv == \A a \in AllAddresses : Linked(a) => \E n \in armed : Owns(n, a)

\* A one-shot link that is there has not been given out.
GrantInv ==
  /\ \A m \in Machines : served[m] <= grants[m] /\ (served[m] > 0 => m \in armed)
  /\ \A n \in Nodes : \A a \in AllAddresses :
       Owns(n, a) /\ once[a] # None => served[n] < grants[n]

\* A command that sets a one-shot link found no persistent one, and nobody else
\* writes one.
RowHolds(d, n) ==
  /\ RowIsTrue(d, n)
  /\ pc[d] \in {"confirm", "write"} /\ cmd[d].verb = "set" /\ links[d][n].mode = "once" =>
       static[links[d][n].address] = None
RowInv ==
  /\ ~Suffix => \A a \in AllAddresses : static[a] = None
  /\ \A d \in Desks : \A n \in cmd[d].nodes : Apart(d, n) => RowHolds(d, n)

Inv == TypeOK /\ Values /\ CommandInv /\ OwnInv /\ GrantInv /\ RowInv
=============================================================================
