------------------------------ MODULE Machines ------------------------------
(***************************************************************************)
(* Which machine a name means.  The inventory is built entry by entry from *)
(* the NodeInventory documents, the naming rules give each machine a host  *)
(* name and a service processor name, and a selection is turned, name by   *)
(* name, into the machines the inventory writes down.  A name is a record: *)
(* its padding and its look (capitals, a final dot) are not part of what   *)
(* it names, its host and its domain are.                                  *)
(***************************************************************************)
EXTENDS Naturals, Sequences, FiniteSets, SequencesExt

CONSTANTS
  Documents,    \* the sequences of entries an inventory may be built from
  RuleOf,       \* of a host, the first naming rule that matches it
  Selections    \* what may be typed: an argument, and -n or the environment

Name(host, pad, domain, look) == [host |-> host, pad |-> pad, domain |-> domain, look |-> look]
IsAddress(n) == n.domain = "address"
Entry(nodes, default, rack, attr, ids) ==
  [nodes |-> nodes, default |-> default, rack |-> rack, attr |-> attr, ids |-> ids]
Rule(fqdn, bmc) == [fqdn |-> fqdn, bmc |-> bmc]     \* the domains of its templates
Selection(arg, nodes, flag) == [arg |-> arg, nodes |-> nodes, flag |-> flag]

Unset == "unset"
Fields == {"address", "bmcAddress", "cid", "macs"}

NoDomain == ""
NoRack == ""

IsName(n) == n = Name(n.host, n.pad, n.domain, n.look)

MachinesConstants ==
  /\ \A es \in Documents :
       /\ es \in Seq(Range(es))
       /\ \A e \in Range(es) :
            /\ e.nodes \in Seq(Range(e.nodes)) /\ DOMAIN e.ids \subseteq Fields
            /\ e.rack # Unset /\ \A n \in Range(e.nodes) : IsName(n)
  /\ \A c \in Selections : \A n \in c.arg \cup c.nodes : IsName(n)

VARIABLES
  entries, command,
  at,           \* "entry", "select", "machine", "done" or "refused"
  entry, name,  \* the entry, and its name, that comes next
  order, nodes, \* the inventory: its names in order, and what is known of each
  left,         \* the names of the selection that are still to be looked up
  selected      \* what was typed, and the machines it selects

vars == <<entries, command, at, entry, name, order, nodes, left, selected>>
inventory == <<entry, name, order, nodes>>

Lower(n) == [n EXCEPT !.look = "plain"]
Folded(n) == [n EXCEPT !.look = "plain", !.pad = 0]
Known == Range(order)
Put(h, k, v) == [x \in DOMAIN h \cup {k} |-> IF x = k THEN v ELSE h[x]]
Empty == [x \in {} |-> Unset]

(***************************************************************************)
(* FromDocuments.                                                          *)
(***************************************************************************)
BadEntry(e) ==
  \/ e.nodes = <<>>
  \/ Len(e.nodes) > 1 /\ e.ids # Empty
  \/ e.attr # Unset /\ e.rack # NoRack /\ e.attr # e.rack

\* claim: the name as it was first given, or the first name of this host.
Claimable(n) ==
  IF \E m \in Known : Folded(m) = Folded(n) THEN n \in Known ELSE Lower(n) = n

Fresh(e) ==
  [rack |-> IF e.default = Unset THEN NoRack ELSE e.default, attr |-> e.default, ids |-> Empty]

\* place: one of the two ways of writing it sets both.
Placed(node, e) ==
  LET value == IF e.attr # Unset THEN e.attr ELSE e.rack IN
  IF e.attr = Unset /\ e.rack = NoRack THEN node
  ELSE [node EXCEPT !.rack = value, !.attr = IF value = NoRack THEN Unset ELSE value]

Applied(node, e) ==
  [Placed(node, e) EXCEPT !.ids =
     [f \in DOMAIN node.ids \cup DOMAIN e.ids |-> IF f \in DOMAIN e.ids THEN e.ids[f] ELSE node.ids[f]]]

Refused ==
  at' = "refused" /\ UNCHANGED <<inventory, left, selected>>

Build ==
  /\ at = "entry" /\ entry \in DOMAIN entries
  /\ LET e == entries[entry]
         n == e.nodes[name]
         node == IF n \in Known THEN nodes[n] ELSE Fresh(e) IN
       IF BadEntry(e) \/ ~Claimable(n) THEN Refused
       ELSE /\ nodes' = Put(nodes, n, Applied(node, e))
            /\ order' = IF n \in Known THEN order ELSE Append(order, n)
            /\ IF name < Len(e.nodes) THEN name' = name + 1 /\ UNCHANGED entry
                                      ELSE name' = 1 /\ entry' = entry + 1
            /\ UNCHANGED <<at, left, selected>>
  /\ UNCHANGED <<entries, command>>

\* An address and a service processor address are of one kind, in any case.
Addresses == {"address", "bmcAddress"}
Key(f, v) == IF f \in Addresses THEN <<"address", Lower(v)>> ELSE <<f, v>>
Keys(ns, n) == {Key(f, ns[n].ids[f]) : f \in DOMAIN ns[n].ids}
Shared(ns) == \E m, n \in DOMAIN ns : m # n /\ Keys(ns, m) \cap Keys(ns, n) # {}

CheckUnique ==
  /\ at = "entry" /\ entry \notin DOMAIN entries
  /\ IF Shared(nodes) THEN Refused
     ELSE at' = "select" /\ UNCHANGED <<inventory, left, selected>>
  /\ UNCHANGED <<entries, command>>

(***************************************************************************)
(* The naming rules.                                                       *)
(***************************************************************************)
\* match and expand: the first rule whose pattern matches.
match(n) == RuleOf[n.host]

Dotted(n) == n.domain # NoDomain
In(n, domain) == [n EXCEPT !.domain = domain]
Short(n) == In(n, NoDomain)

FQDN(n) ==
  IF Dotted(n) \/ match(n).fqdn = NoDomain THEN n
  ELSE In(n, match(n).fqdn)

HasBMC(n) ==
  LET s == Short(n) IN
  /\ ~IsAddress(n) /\ (n # s => n = FQDN(s))
  /\ match(n).bmc # NoDomain
  /\ In(s, match(n).bmc) \notin {s, FQDN(s)}

BMC(n) == In(n, match(n).bmc)

(***************************************************************************)
(* App.machine: the inventory name of the machine a name refers to.        *)
(***************************************************************************)
AliasesOf(m) ==
  {FQDN(m)} \cup (IF HasBMC(m) THEN {BMC(m)} ELSE {})
    \cup {Lower(nodes[m].ids[f]) : f \in DOMAIN nodes[m].ids \cap Addresses}

\* aliasOf: an inventory name is its node's, whoever else goes by it.
Holders(n) == IF n \in Known THEN {n} ELSE {m \in Known : n \in AliasesOf(m)}

Spellings(n) == {m \in Known : Folded(m) = Folded(n)}
The(S) == CHOOSE m \in S : TRUE

\* A host name, or a service processor name, that the rules give the short name.
ByRule(n) ==
  /\ Spellings(n) = {} /\ Dotted(n) /\ ~IsAddress(n)
  /\ FQDN(Short(n)) = n \/ (HasBMC(Short(n)) /\ BMC(Short(n)) = n)

\* The other spelling decides, whoever else has the name.
UnambiguousSpelling(spelled, holders) == TRUE

Unambiguous(spelled, holders) == spelled \in Known => holders \subseteq {spelled}

\* The machine, or nothing where the name is refused.
Decided(n, spelled) ==
  LET holders == Holders(n) IN
  IF holders = {} THEN {spelled}
  ELSE IF ~Unambiguous(spelled, holders) THEN {}
  ELSE IF Cardinality(holders) > 1 THEN {n} ELSE holders

\* The name with the padding of the inventory, where it has one.
Spelled(n) == IF Spellings(n) # {} THEN The(Spellings(n)) ELSE n

\* machineOf for a name that no rule gave: machineOf of a short name.
PlainMachine(n) == IF n \in Known THEN {n} ELSE Decided(n, Spelled(n))

MachineOf(typed) ==
  LET n == Lower(typed) IN
  IF n \in Known \/ ~ByRule(n) THEN PlainMachine(n)
  ELSE UNION {Decided(n, m) : m \in PlainMachine(Short(n))}

(***************************************************************************)
(* Select and canonicalize.                                                *)
(***************************************************************************)
Select ==
  /\ at = "select"
  /\ LET none == command.arg = {} /\ command.nodes = {}
         twice == command.arg # {} /\ command.flag IN
       IF none \/ twice THEN Refused
       ELSE /\ at' = "machine" /\ left' = IF command.arg # {} THEN command.arg ELSE command.nodes
            /\ UNCHANGED <<inventory, selected>>
  /\ UNCHANGED <<entries, command>>

Canonicalize ==
  /\ at = "machine" /\ left # {}
  /\ \E typed \in left :
       IF MachineOf(typed) = {} THEN Refused
       ELSE /\ selected' = selected \cup {[typed |-> typed, machine |-> The(MachineOf(typed))]}
            /\ left' = left \ {typed} /\ UNCHANGED <<inventory, at>>
  /\ UNCHANGED <<entries, command>>

Selected ==
  /\ at = "machine" /\ left = {} /\ at' = "done"
  /\ UNCHANGED <<entries, command, inventory, left, selected>>

Init ==
  /\ entries \in Documents /\ command \in Selections
  /\ at = "entry" /\ entry = 1 /\ name = 1 /\ order = <<>> /\ nodes = Empty
  /\ left = {} /\ selected = {}

Stay == at \in {"done", "refused"} /\ UNCHANGED vars

Next == Build \/ CheckUnique \/ Select \/ Canonicalize \/ Selected \/ Stay

Spec == Init /\ [][Next]_vars

\* Types; the inventory knows what it lists.
TypeOK ==
  /\ at \in {"entry", "select", "machine", "done", "refused"}
  /\ Known = DOMAIN nodes /\ Cardinality(Known) = Len(order)
  /\ \A n \in Known : DOMAIN nodes[n].ids \subseteq Fields

(***************************************************************************)
(* What an inventory promises.                                             *)
(***************************************************************************)
\* The names of an entry that were read, and the entries that gave a name,
\* one of its fields, or its rack.
NamesRead(i) ==
  LET read == {k \in DOMAIN entries[i].nodes : i < entry \/ (i = entry /\ k < name)} IN
  {entries[i].nodes[k] : k \in read}
Naming(n) == {i \in DOMAIN entries : n \in NamesRead(i)}
Giving(n, f) == {i \in Naming(n) : f \in DOMAIN entries[i].ids}
Placing(n) == {i \in Naming(n) : entries[i].attr # Unset \/ entries[i].rack # NoRack}

LastOf(S) == CHOOSE i \in S : \A j \in S : j <= i
PlaceIn(e) == IF e.attr # Unset THEN e.attr ELSE e.rack

\* What is kept is what the entries that were read say, the last of them first.
OneNameEach == \A m, n \in Known : m # n => Folded(m) # Folded(n)

AsWritten(n) ==
  /\ DOMAIN nodes[n].ids = {f \in Fields : Giving(n, f) # {}}
  /\ \A f \in DOMAIN nodes[n].ids : nodes[n].ids[f] = entries[LastOf(Giving(n, f))].ids[f]
  /\ nodes[n].attr \in {nodes[n].rack, Unset} /\ (nodes[n].attr = Unset => nodes[n].rack = NoRack)
  /\ Placing(n) # {} => nodes[n].rack = PlaceIn(entries[LastOf(Placing(n))])

\* An inventory that is served is the documents as they are written: one
\* machine for every host, each field from the last entry that gives it, no
\* identifier on two machines, and a rack that its attribute agrees with.
\* (FromDocuments, claim, apply, place and checkUnique)
InventoryIsAsWritten ==
  at \in {"select", "machine", "done"} =>
    /\ Known = UNION {Range(entries[i].nodes) : i \in DOMAIN entries}
    /\ OneNameEach /\ \A m, n \in Known : m # n => Keys(nodes, m) \cap Keys(nodes, n) = {}
    /\ \A n \in Known : AsWritten(n)

\* The machines a name is of: an inventory name is its own; any other is of
\* those it is another spelling of, or the host name, service processor name
\* or address of.  A name the rules make of a short name is also of those the
\* short name is of, unless the inventory has it in another spelling.
Owners(n) ==
  IF n \in Known THEN {n} ELSE {m \in Known : Folded(m) = Folded(n) \/ n \in AliasesOf(m)}
Meant(n) == IF ByRule(n) THEN Owners(n) \cup Owners(Short(n)) ELSE Owners(n)

\* A name selects the one machine that goes by it, so that a protected
\* machine is reached as itself however it is written; a name of two
\* machines selects neither, unless it is one's inventory name.
\* (App.machineOf, spelling, aliasOf and canonicalize)
SelectedIsMeant ==
  \A s \in selected :
    LET meant == Meant(Lower(s.typed)) IN
    IF s.machine \in Known THEN meant = {s.machine} ELSE Cardinality(meant) # 1

(***************************************************************************)
(* The inductive invariant: the entries are read in order, what is kept is *)
(* what those that were read say, an inventory that is served has its      *)
(* identifiers on one machine each, and what was selected is what was      *)
(* meant.                                                                  *)
(***************************************************************************)
PlaceInv ==
  /\ entry \in 1..Len(entries) + 1 /\ name \in Nat \ {0}
  /\ entry \in DOMAIN entries => name = 1 \/ name <= Len(entries[entry].nodes)
  /\ entry \notin DOMAIN entries => name = 1
  /\ at \in {"select", "machine", "done"} => entry \notin DOMAIN entries

KeptInv ==
  /\ Known = UNION {NamesRead(i) : i \in DOMAIN entries}
  /\ OneNameEach /\ \A n \in Known : AsWritten(n)
  /\ \A n \in Known :
       nodes[n] = [rack |-> nodes[n].rack, attr |-> nodes[n].attr, ids |-> nodes[n].ids]

UniqueInv == at \in {"select", "machine", "done"} => ~Shared(nodes)

SelectedInv == (at \in {"entry", "select"} => selected = {}) /\ SelectedIsMeant

Inv ==
  /\ TypeOK /\ entries \in Documents /\ IsFiniteSet(Known) /\ order \in Seq(Known)
  /\ command \in Selections /\ left \subseteq command.arg \cup command.nodes
  /\ PlaceInv /\ KeptInv /\ UniqueInv /\ SelectedInv
=============================================================================
