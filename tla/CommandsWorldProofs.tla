------------------------- MODULE CommandsWorldProofs -------------------------
(***************************************************************************)
(* Proofs about what Commands does in a world that others change: the      *)
(* links the nodes boot by, what is asked of the name servers, and the     *)
(* configuration that is merged and kept.                                  *)
(*                                                                         *)
(* Every section proves that the invariant of its component holds when its *)
(* scene begins and is kept by every step, and from it the property of the *)
(* whole.  The components are those of Commands, whose registers stand for *)
(* their variables: the heading of a section says which.                   *)
(***************************************************************************)
EXTENDS Commands, Integers, FiniteSetTheorems, SequenceTheorems, WellFoundedInduction, TLAPS

(***************************************************************************)
(* The boot links.  A link is named after an address, so a command owns    *)
(* the addresses it writes when no other machine has them (OwnInv); what   *)
(* was granted to a node is from a command that named it (GrantInv), and a *)
(* row says what is there when the command looked (RowInv).                *)
(*                                                                         *)
(* The registers: v1 world, v2 exists, v3 once, v4 static, v5 grub, v6 pc, *)
(* v7 cmd, v8 links, v9 row, v10 grants, v11 kept, v12 armed, v13 served.  *)
(***************************************************************************)
\* What is assumed of the constants.
LEMMA BootGiven ==
  /\ OfBoot.Nodes \subseteq OfBoot.Machines /\ Boot!None \notin OfBoot.Paths
  /\ OfBoot.Suffix \in BOOLEAN
  /\ \A w \in OfBoot.Worlds : \A e \in w.dhcp : Boot!None \notin e.addrs
  /\ \A d \in OfBoot.Desks : \A c \in OfBoot.Asked[d] : c.verb \in Boot!Verbs
     /\ c.nodes \subseteq OfBoot.Nodes
BY CommandsConstants DEF CommandsConstants, Boot!BootLinksConstants

\* The parts of the invariant.
LEMMA BootParts ==
  ASSUME Boot!Inv
  PROVE  Boot!TypeOK /\ Boot!Values /\ Boot!CommandInv /\ Boot!OwnInv /\ Boot!GrantInv
         /\ Boot!RowInv
BY DEF Boot!Inv

\* What one world holds is among all the addresses.
LEMMA BootOneOfAll ==
  ASSUME NEW w \in OfBoot.Worlds, NEW a, a # Boot!None,
         a \in UNION {e.addrs : e \in w.dhcp} \/ a \in {w.address[n] : n \in OfBoot.Nodes}
  PROVE  a \in Boot!AllAddresses
<1>1. CASE a \in UNION {e.addrs : e \in w.dhcp}
  BY <1>1 DEF Boot!AllAddresses
<1>2. CASE a \in {w.address[n] : n \in OfBoot.Nodes}
  <2>1. PICK n \in OfBoot.Nodes : a = w.address[n]
    BY <1>2
  <2> QED
    BY <2>1 DEF Boot!AllAddresses
<1> QED
  BY <1>1, <1>2

\* An address of a node is one that links are named after.
LEMMA BootAddressKnown ==
  ASSUME Boot!Values, NEW n \in OfBoot.Nodes, NEW a \in Boot!nodeAddress(n)
  PROVE  a \in Boot!AllAddresses
<1>0. v1 \in OfBoot.Worlds
  BY DEF Boot!Values
<1>1. CASE v1.address[n] # Boot!None
  <2>1. a = v1.address[n]
    BY <1>1 DEF Boot!nodeAddress
  <2>2. a \in {v1.address[k] : k \in OfBoot.Nodes}
    BY <2>1
  <2>3. a # Boot!None
    BY <1>1, <2>1
  <2> QED
    BY <1>0, <2>2, <2>3, BootOneOfAll
<1>2. CASE v1.address[n] = Boot!None
  <2>1. a \in UNION {e.addrs : e \in Boot!ByName(n)}
    BY <1>2 DEF Boot!nodeAddress, Boot!BootAddress
  <2>2. PICK e \in Boot!ByName(n) : a \in e.addrs
    BY <2>1
  <2>3. e \in v1.dhcp
    BY <2>2 DEF Boot!ByName
  <2>4. a # Boot!None
    BY <1>0, <2>2, <2>3, BootGiven
  <2>5. a \in UNION {g.addrs : g \in v1.dhcp}
    BY <2>2, <2>3
  <2> QED
    BY <1>0, <2>4, <2>5, BootOneOfAll
<1> QED
  BY <1>1, <1>2

\* The address a link is named after is one of the node's.
LEMMA BootChosen ==
  ASSUME NEW n, Boot!nodeAddress(n) # {}
  PROVE  Boot!AddressOf(n) \in Boot!nodeAddress(n)
BY DEF Boot!AddressOf

\* No other machine takes an address that is the node's own: one the inventory
\* sets is not in DHCP, and one of DHCP was compared with all of it.
LEMMA BootTakenBy ==
  ASSUME Boot!AddressesAreOwn, Boot!Values, NEW n \in OfBoot.Nodes, NEW m \in OfBoot.Machines,
         NEW a \in Boot!Taken(m), Boot!Owns(n, a)
  PROVE  m = n
<1>0. v1 \in OfBoot.Worlds /\ a \in Boot!nodeAddress(n) /\ Boot!Owners(n, a) \subseteq {n}
  BY BootChosen DEF Boot!Values, Boot!Owns
<1>1. CASE m \in OfBoot.Nodes /\ v1.address[m] # Boot!None
  BY <1>0, <1>1 DEF Boot!Taken, Boot!nodeAddress, Boot!Owners
<1>2. CASE ~(m \in OfBoot.Nodes /\ v1.address[m] # Boot!None)
  <2>1. a \in UNION {e.addrs : e \in Boot!ByName(m)}
    BY <1>2 DEF Boot!Taken, Boot!nodeAddress, Boot!BootAddress
  <2>2. PICK e \in Boot!ByName(m) : a \in e.addrs
    BY <2>1
  <2>3. e \in v1.dhcp /\ e.node = m
    BY <2>2 DEF Boot!ByName
  <2>4. CASE v1.address[n] # Boot!None
    <3>1. a = v1.address[n]
      BY <1>0, <2>4 DEF Boot!nodeAddress
    <3> QED
      BY <1>0, <2>2, <2>3, <2>4, <3>1 DEF Boot!AddressesAreOwn
  <2>5. CASE v1.address[n] = Boot!None
    <3>1. SUFFICES ASSUME m # n PROVE FALSE
      OBVIOUS
    <3>2. m \in Boot!dhcpHolders(n, a)
      BY <2>2, <2>3, <3>1 DEF Boot!dhcpHolders
    <3> QED
      BY <1>0, <2>5, <3>1, <3>2 DEF Boot!Owners, Boot!FromDHCP
  <2> QED
    BY <2>4, <2>5
<1> QED
  BY <1>1, <1>2

\* An address is of one node only.
LEMMA BootOneOwner ==
  ASSUME Boot!AddressesAreOwn, Boot!Values, NEW n \in OfBoot.Nodes, NEW m \in OfBoot.Nodes, NEW a,
         Boot!Owns(n, a), Boot!Owns(m, a)
  PROVE  m = n
<1>1. a \in Boot!Taken(m) /\ m \in OfBoot.Machines
  BY BootChosen, BootGiven DEF Boot!Taken, Boot!Owns
<1> QED
  BY <1>1, BootTakenBy

\* A command that is resolved owns the addresses it writes.
LEMMA BootOwnsItsLinks ==
  ASSUME NEW c, Boot!Resolvable(c), NEW n \in c.nodes
  PROVE  /\ Boot!Owns(n, Boot!AddressOf(n))
         /\ Boot!Resolved(c)[n].address = Boot!AddressOf(n)
         /\ c.verb = "set" => Boot!Resolved(c)[n].mode \in {"once", "persistent"}
         /\ c.verb = "set" /\ ~OfBoot.Suffix => Boot!Resolved(c)[n].mode = "once"
<1>1. Boot!nodeAddress(n) # {} /\ Boot!Owners(n, Boot!AddressOf(n)) \subseteq {n}
  BY BootChosen DEF Boot!Resolvable, Boot!nodeAddresses
<1>2. Boot!Owns(n, Boot!AddressOf(n))
  BY <1>1 DEF Boot!Owns
<1>3. CASE c.verb = "set"
  <2>1. Boot!Resolved(c)[n] = Boot!Link(n, c)
    BY <1>3 DEF Boot!Resolved, Boot!resolveBootLinks
  <2>2. ~OfBoot.Suffix => ~c.persistent /\ ~Boot!StaticRule(n, c.path)
    BY <1>3 DEF Boot!Resolvable
  <2> QED
    BY <1>2, <2>1, <2>2 DEF Boot!Link
<1>4. CASE c.verb # "set"
  BY <1>2, <1>4 DEF Boot!Resolved
<1> QED
  BY <1>3, <1>4

\* What the inventory, DHCP and the rules hold does not change.
LEMMA BootSteady ==
  ASSUME v1' = v1
  PROVE  /\ \A n, a : Boot!Owns(n, a)' <=> Boot!Owns(n, a)
         /\ \A c : Boot!Resolvable(c)' <=> Boot!Resolvable(c)
         /\ \A c : Boot!Resolved(c)' = Boot!Resolved(c)
<1>1. \A n : Boot!ByName(n)' = Boot!ByName(n)
  BY DEF Boot!ByName
<1>2. \A n : (Boot!Decided(n)' <=> Boot!Decided(n)) /\ Boot!BootAddress(n)' = Boot!BootAddress(n)
  BY <1>1 DEF Boot!Decided, Boot!BootAddress
<1>3. \A n : Boot!nodeAddress(n)' = Boot!nodeAddress(n)
  BY <1>2 DEF Boot!nodeAddress
<1>4. \A n : Boot!AddressOf(n)' = Boot!AddressOf(n)
  BY <1>3 DEF Boot!AddressOf
<1>5. \A n, a : Boot!Owners(n, a)' = Boot!Owners(n, a)
  BY DEF Boot!Owners, Boot!FromDHCP, Boot!dhcpHolders
<1>6. \A n, a : Boot!Owns(n, a)' <=> Boot!Owns(n, a)
  BY <1>3, <1>4, <1>5 DEF Boot!Owns
<1>7. \A n : Boot!Rules(n)' = Boot!Rules(n)
  BY DEF Boot!Rules
<1>8. /\ \A n, g : Boot!HasPath(n, g)' <=> Boot!HasPath(n, g)
      /\ \A n, g : Boot!PathOf(n, g)' = Boot!PathOf(n, g)
      /\ \A n, g : Boot!StaticRule(n, g)' <=> Boot!StaticRule(n, g)
  <2>1. \A n, g : Boot!HasPath(n, g)' <=> Boot!HasPath(n, g)
    BY <1>7 DEF Boot!HasPath
  <2>2. \A n, g : Boot!PathOf(n, g)' = Boot!PathOf(n, g)
    <3>1. \A n : Boot!RuleOf(n)' = Boot!RuleOf(n)
      BY <1>7 DEF Boot!RuleOf
    <3> QED
      BY <3>1 DEF Boot!PathOf
  <2>3. \A n, g : Boot!StaticRule(n, g)' <=> Boot!StaticRule(n, g)
    BY <1>7 DEF Boot!StaticRule
  <2> QED
    BY <2>1, <2>2, <2>3
<1>9. \A c : Boot!Resolvable(c)' <=> Boot!Resolvable(c)
  BY <1>3, <1>5, <1>8 DEF Boot!Resolvable, Boot!nodeAddresses
<1>10. \A n, c : Boot!Link(n, c)' = Boot!Link(n, c)
  BY <1>4, <1>8 DEF Boot!Link
<1>11. \A c : Boot!Resolved(c)' = Boot!Resolved(c)
  BY <1>4, <1>10 DEF Boot!Resolved, Boot!resolveBootLinks
<1> QED
  BY <1>6, <1>9, <1>11

\* A step that leaves the links and the machines alone.
LEMMA BootQuiet ==
  ASSUME Boot!Inv, v1' = v1, Boot!pxe' = Boot!pxe, v10' = v10, v13' = v13, v12 \subseteq v12'
  PROVE  Boot!OwnInv' /\ Boot!GrantInv'
<1>0. Boot!OwnInv /\ Boot!GrantInv /\ v3' = v3 /\ v4' = v4 /\ v5' = v5
  BY DEF Boot!Inv, Boot!pxe
<1>1. Boot!OwnInv'
  BY <1>0, BootSteady DEF Boot!OwnInv, Boot!Linked, Boot!AllAddresses
<1>2. Boot!GrantInv'
  BY <1>0, BootSteady DEF Boot!GrantInv, Boot!AllAddresses
<1> QED
  BY <1>1, <1>2

\* The invariant holds before anything is typed.
LEMMA BootBegins == Boot!Init => Boot!Inv
<1> SUFFICES ASSUME Boot!Init PROVE Boot!Inv
  OBVIOUS
<1>1. /\ \A a \in Boot!AllAddresses : v3[a] = Boot!None /\ v4[a] = Boot!None /\ v5[a] = Boot!None
      /\ \A d \in OfBoot.Desks : v6[d] = "idle" /\ v7[d] = Boot!NoCommand
         /\ \A n \in OfBoot.Nodes : v9[d][n] = Boot!None
      /\ \A m \in OfBoot.Machines : v10[m] = 0 /\ v13[m] = 0
  BY DEF Boot!Init
<1>2. DOMAIN v3 = Boot!AllAddresses
  BY DEF Boot!Init
<1>3. Boot!TypeOK
  BY <1>2 DEF Boot!Init, Boot!TypeOK, Boot!Addresses, Boot!None
<1>4. Boot!Values
  BY DEF Boot!Init, Boot!Values
<1>5. Boot!CommandInv
  BY <1>1 DEF Boot!CommandInv, Boot!CommandHolds, Boot!Knows, Boot!NoCommand, Boot!Command,
     Boot!Sets, Boot!None
<1>6. Boot!OwnInv
  BY <1>1 DEF Boot!OwnInv, Boot!Linked
<1>7. Boot!GrantInv
  BY <1>1 DEF Boot!GrantInv
<1>8. Boot!RowInv
  BY <1>1 DEF Boot!RowInv, Boot!NoCommand, Boot!Command
<1> QED
  BY <1>3, <1>4, <1>5, <1>6, <1>7, <1>8 DEF Boot!Inv

\* What a step of one desk leaves as it is.
OfDesk(d) ==
  /\ v1' = v1 /\ Boot!pxe' = Boot!pxe /\ v10' = v10 /\ v13' = v13 /\ v11' = v11
  /\ v2' = v2 /\ v12 \subseteq v12' /\ v12' \subseteq OfBoot.Nodes
  /\ v9' = v9 /\ v6' \in [OfBoot.Desks -> {"idle", "resolve", "check", "confirm", "write", "over"}]
  /\ DOMAIN v7' = OfBoot.Desks /\ DOMAIN v8' = OfBoot.Desks
  /\ \A e \in OfBoot.Desks : e # d => v6'[e] = v6[e] /\ v7'[e] = v7[e] /\ v8'[e] = v8[e]
  /\ v7[d] = Boot!NoCommand \/ v7'[d] = v7[d]

\* Such a step keeps the invariant when it keeps that of the desk.
LEMMA BootDesk ==
  ASSUME Boot!Inv, NEW d \in OfBoot.Desks, OfDesk(d), Boot!CommandHolds(d)',
         \A n \in v7'[d].nodes : Boot!Apart(d, n) => Boot!RowHolds(d, n)'
  PROVE  Boot!Inv'
<1>0. Boot!TypeOK /\ Boot!Values /\ Boot!CommandInv /\ Boot!OwnInv /\ Boot!GrantInv /\ Boot!RowInv
  BY DEF Boot!Inv
<1>1. v3' = v3 /\ v4' = v4 /\ v5' = v5
  BY DEF OfDesk, Boot!pxe
<1>2. Boot!OwnInv' /\ Boot!GrantInv'
  BY BootQuiet DEF OfDesk
<1>3. Boot!TypeOK'
  BY <1>0, <1>1 DEF Boot!TypeOK, Boot!Addresses, OfDesk
<1>4. Boot!Values'
  BY <1>0, <1>1 DEF Boot!Values, Boot!AllAddresses, OfDesk
<1>5. Boot!CommandInv'
  <2> SUFFICES ASSUME NEW e \in OfBoot.Desks, e # d PROVE Boot!CommandHolds(e)'
    BY DEF Boot!CommandInv
  <2>1. v6'[e] = v6[e] /\ v7'[e] = v7[e] /\ v8'[e] = v8[e] /\ v9'[e] = v9[e]
    BY DEF OfDesk
  <2>2. Boot!Resolvable(v7[e]) /\ v8[e] = Boot!Resolved(v7[e])
        => Boot!Resolvable(v7[e])' /\ v8'[e] = Boot!Resolved(v7[e])'
    BY <2>1, BootSteady DEF OfDesk
  <2>3. Boot!CommandHolds(e) /\ v12 \subseteq v12'
    BY <1>0 DEF Boot!CommandInv, OfDesk
  <2> QED
    BY <2>1, <2>2, <2>3 DEF Boot!CommandHolds, Boot!Knows, Boot!Sets
<1>6. \A e \in OfBoot.Desks, n \in OfBoot.Nodes : Boot!Apart(e, n)' => Boot!Apart(e, n)
  BY DEF Boot!Apart, OfDesk, Boot!NoCommand, Boot!Command
<1>7. \A e \in OfBoot.Desks : v7'[e].nodes \subseteq OfBoot.Nodes
  BY <1>5, BootGiven DEF Boot!CommandInv, Boot!CommandHolds, Boot!NoCommand, Boot!Command
<1>8. Boot!RowInv'
  <2>1. ~OfBoot.Suffix => \A a \in Boot!AllAddresses' : v4'[a] = Boot!None
    BY <1>0, <1>1 DEF Boot!RowInv, Boot!AllAddresses
  <2>2. ASSUME NEW e \in OfBoot.Desks, NEW n \in v7'[e].nodes, Boot!Apart(e, n)', e # d
        PROVE  Boot!RowHolds(e, n)'
    <3>1. v6'[e] = v6[e] /\ v7'[e] = v7[e] /\ v8'[e] = v8[e] /\ v9'[e] = v9[e] /\ v13' = v13
      BY <2>2 DEF OfDesk
    <3>2. Boot!RowHolds(e, n)
      BY <1>0, <1>6, <1>7, <2>2, <3>1 DEF Boot!RowInv
    <3> QED
      BY <1>1, <3>1, <3>2 DEF Boot!RowHolds, Boot!RowIsTrue
  <2>3. ASSUME NEW n \in v7'[d].nodes, Boot!Apart(d, n)'
        PROVE  Boot!RowHolds(d, n)'
    BY <1>6, <1>7, <2>3
  <2> QED
    BY <2>1, <2>2, <2>3 DEF Boot!RowInv
<1> QED
  BY <1>2, <1>3, <1>4, <1>5, <1>8 DEF Boot!Inv

\* A command is typed.
LEMMA BootType ==
  ASSUME Boot!Inv, NEW d \in OfBoot.Desks, Boot!Type(d)
  PROVE  Boot!Inv'
<1>0. Boot!TypeOK /\ Boot!Values /\ Boot!CommandHolds(d)
  BY DEF Boot!Inv, Boot!CommandInv
<1>1. /\ UNCHANGED <<v1, v2, Boot!pxe, v8, v9, Boot!history>>
      /\ v6[d] = "idle" /\ v6' = [v6 EXCEPT ![d] = "resolve"]
  BY DEF Boot!Type, Boot!Go
<1>2. PICK c \in OfBoot.Asked[d] : v7' = [v7 EXCEPT ![d] = c]
  BY DEF Boot!Type
<1>3. c.verb \in Boot!Verbs /\ c # Boot!NoCommand
  BY BootGiven DEF Boot!NoCommand, Boot!Command, Boot!Verbs, Boot!None
<1>4. v7[d] = Boot!NoCommand /\ \A n \in OfBoot.Nodes : v9[d][n] = Boot!None
  BY <1>0, <1>1 DEF Boot!CommandHolds
<1>5. OfDesk(d)
  BY <1>0, <1>1, <1>2, <1>4 DEF OfDesk, Boot!TypeOK, Boot!Values, Boot!history
<1>6. v6'[d] = "resolve" /\ v7'[d] = c /\ \A n \in OfBoot.Nodes : v9'[d][n] = Boot!None
  BY <1>0, <1>1, <1>2, <1>4 DEF Boot!TypeOK, Boot!Values
<1>7. Boot!CommandHolds(d)'
  BY <1>3, <1>6 DEF Boot!CommandHolds, Boot!Knows, Boot!None
<1>8. \A n \in v7'[d].nodes : Boot!RowHolds(d, n)'
  BY <1>6, BootGiven DEF Boot!RowHolds, Boot!RowIsTrue, Boot!None
<1> QED
  BY <1>5, <1>7, <1>8, BootDesk

\* The addresses and paths are resolved, or refused.
LEMMA BootResolve ==
  ASSUME Boot!Inv, NEW d \in OfBoot.Desks, Boot!Resolve(d)
  PROVE  Boot!Inv'
<1>0. Boot!TypeOK /\ Boot!Values /\ Boot!CommandHolds(d) /\ Boot!RowInv
  BY DEF Boot!Inv, Boot!CommandInv
<1>1. UNCHANGED <<v1, v2, Boot!pxe, v7, v9, Boot!history>> /\ v6[d] = "resolve"
  BY DEF Boot!Resolve
<1>2. v7[d] \in OfBoot.Asked[d] /\ v7'[d] = v7[d] /\ \A n \in OfBoot.Nodes : v9'[d][n] = Boot!None
  BY <1>0, <1>1 DEF Boot!CommandHolds
<1>3. v7[d].nodes \subseteq OfBoot.Nodes
  BY <1>2, BootGiven
<1>4. CASE Boot!Resolvable(v7[d])
  <2>1. /\ v8' = [v8 EXCEPT ![d] = Boot!Resolved(v7[d])]
        /\ v6' = [v6 EXCEPT ![d] = IF Boot!Sets(v7[d]) THEN "check" ELSE "confirm"]
    BY <1>4 DEF Boot!Resolve, Boot!Go
  <2>2. OfDesk(d)
    BY <1>0, <1>1, <2>1 DEF OfDesk, Boot!TypeOK, Boot!Values, Boot!history
  <2>3. v8'[d] = Boot!Resolved(v7[d]) /\ v6'[d] = IF Boot!Sets(v7[d]) THEN "check" ELSE "confirm"
    BY <1>0, <2>1 DEF Boot!TypeOK, Boot!Values
  <2>4. Boot!Resolvable(v7[d])' /\ v8'[d] = Boot!Resolved(v7[d])'
    BY <1>1, <1>2, <1>4, <2>3, BootSteady
  <2>5. Boot!Sets(v7[d])' <=> Boot!Sets(v7[d])
    BY <1>2 DEF Boot!Sets
  <2>6. Boot!CommandHolds(d)'
    BY <1>0, <1>1, <1>2, <2>3, <2>4, <2>5 DEF Boot!CommandHolds, Boot!None
  <2>7. \A n \in v7'[d].nodes : Boot!RowHolds(d, n)'
    BY <1>2, <1>3, <2>3 DEF Boot!RowHolds, Boot!RowIsTrue, Boot!Sets, Boot!None
  <2> QED
    BY <2>2, <2>6, <2>7, BootDesk
<1>5. CASE ~Boot!Resolvable(v7[d])
  <2>1. v8' = v8 /\ v6' = [v6 EXCEPT ![d] = "over"]
    BY <1>5 DEF Boot!Resolve, Boot!Go, Boot!Refuse
  <2>2. OfDesk(d)
    BY <1>0, <1>1, <2>1 DEF OfDesk, Boot!TypeOK, Boot!Values, Boot!history
  <2>3. v6'[d] = "over"
    BY <1>0, <2>1 DEF Boot!TypeOK
  <2>6. Boot!CommandHolds(d)'
    BY <1>0, <1>1, <1>2, <2>3 DEF Boot!CommandHolds, Boot!Knows, Boot!None
  <2>7. \A n \in v7'[d].nodes : Boot!RowHolds(d, n)'
    BY <1>2, <1>3, <2>3 DEF Boot!RowHolds, Boot!RowIsTrue, Boot!None
  <2> QED
    BY <2>2, <2>6, <2>7, BootDesk
<1> QED
  BY <1>4, <1>5

\* What is to be linked is looked for on the PXE host.
LEMMA BootCheck ==
  ASSUME Boot!Inv, NEW d \in OfBoot.Desks, Boot!checkBootLinks(d)
  PROVE  Boot!Inv'
<1>0. Boot!TypeOK /\ Boot!Values /\ Boot!CommandHolds(d) /\ Boot!RowInv
  BY DEF Boot!Inv, Boot!CommandInv
<1>1. UNCHANGED <<v1, v2, Boot!pxe, v7, v8, v9, Boot!history>> /\ v6[d] = "check"
  BY DEF Boot!checkBootLinks, Boot!Refuse
<1>2. v7[d] \in OfBoot.Asked[d] /\ v7'[d] = v7[d] /\ v8'[d] = v8[d]
      /\ \A n \in OfBoot.Nodes : v9'[d][n] = Boot!None
  BY <1>0, <1>1 DEF Boot!CommandHolds
<1>3. v7[d].nodes \subseteq OfBoot.Nodes
  BY <1>2, BootGiven
<1>4. Boot!Resolvable(v7[d]) /\ v8[d] = Boot!Resolved(v7[d]) /\ Boot!Resolvable(v7[d])'
      /\ v8'[d] = Boot!Resolved(v7[d])'
  BY <1>0, <1>1, <1>2, BootSteady DEF Boot!CommandHolds, Boot!Knows
<1>5. Boot!Sets(v7[d])' <=> Boot!Sets(v7[d])
  BY <1>2 DEF Boot!Sets
<1>6. CASE \A n \in v7[d].nodes : v8[d][n].path \in v2 /\ ~Boot!Held(n, v8[d][n])
  <2>1. v6' = [v6 EXCEPT ![d] = "confirm"]
    BY <1>6 DEF Boot!checkBootLinks, Boot!Go
  <2>2. OfDesk(d)
    BY <1>0, <1>1, <2>1 DEF OfDesk, Boot!TypeOK, Boot!Values, Boot!history
  <2>3. v6'[d] = "confirm"
    BY <1>0, <2>1 DEF Boot!TypeOK
  <2>4. \A n \in v7[d].nodes : v8[d][n].path \in OfBoot.Paths
    BY <1>0, <1>6 DEF Boot!Values
  <2>5. Boot!CommandHolds(d)'
    BY <1>0, <1>1, <1>2, <1>4, <1>5, <2>3, <2>4 DEF Boot!CommandHolds, Boot!None
  <2>6. \A n \in v7'[d].nodes : Boot!RowHolds(d, n)'
    BY <1>1, <1>2, <1>3, <1>6, <2>3 DEF Boot!RowHolds, Boot!RowIsTrue, Boot!Held, Boot!pxe,
       Boot!None
  <2> QED
    BY <2>2, <2>5, <2>6, BootDesk
<1>7. CASE ~\A n \in v7[d].nodes : v8[d][n].path \in v2 /\ ~Boot!Held(n, v8[d][n])
  <2>1. v6' = [v6 EXCEPT ![d] = "over"]
    BY <1>7 DEF Boot!checkBootLinks, Boot!Go, Boot!Refuse
  <2>2. OfDesk(d)
    BY <1>0, <1>1, <2>1 DEF OfDesk, Boot!TypeOK, Boot!Values, Boot!history
  <2>3. v6'[d] = "over"
    BY <1>0, <2>1 DEF Boot!TypeOK
  <2>5. Boot!CommandHolds(d)'
    BY <1>0, <1>1, <1>2, <2>3 DEF Boot!CommandHolds, Boot!Knows, Boot!None
  <2>6. \A n \in v7'[d].nodes : Boot!RowHolds(d, n)'
    BY <1>2, <1>3, <2>3 DEF Boot!RowHolds, Boot!RowIsTrue, Boot!None
  <2> QED
    BY <2>2, <2>5, <2>6, BootDesk
<1> QED
  BY <1>6, <1>7

\* The question is answered.
LEMMA BootConfirm ==
  ASSUME Boot!Inv, NEW d \in OfBoot.Desks, Boot!Confirm(d)
  PROVE  Boot!Inv'
<1>0. Boot!TypeOK /\ Boot!Values /\ Boot!CommandHolds(d) /\ Boot!RowInv
  BY DEF Boot!Inv, Boot!CommandInv
<1>1. /\ UNCHANGED <<v1, v2, Boot!pxe, v7, v8, v9, v10, v11, v13>> /\ v6[d] = "confirm"
      /\ \/ v6' = [v6 EXCEPT ![d] = "write"]
            /\ v12' = IF Boot!Sets(v7[d]) THEN v12 \cup v7[d].nodes ELSE v12
         \/ v6' = [v6 EXCEPT ![d] = "over"] /\ v12' = v12
  BY DEF Boot!Confirm, Boot!Go
<1>2. v7[d] \in OfBoot.Asked[d] /\ v7'[d] = v7[d] /\ v8'[d] = v8[d]
      /\ \A n \in OfBoot.Nodes : v9'[d][n] = Boot!None
  BY <1>0, <1>1 DEF Boot!CommandHolds
<1>3. v7[d].nodes \subseteq OfBoot.Nodes
  BY <1>2, BootGiven
<1>4. Boot!Resolvable(v7[d])' /\ v8'[d] = Boot!Resolved(v7[d])'
  BY <1>0, <1>1, <1>2, BootSteady DEF Boot!CommandHolds, Boot!Knows
<1>5. Boot!Sets(v7[d])' <=> Boot!Sets(v7[d])
  BY <1>2 DEF Boot!Sets
<1>6. /\ v6'[d] \in {"write", "over"}
      /\ v6' \in [OfBoot.Desks -> {"idle", "resolve", "check", "confirm", "write", "over"}]
      /\ \A e \in OfBoot.Desks : e # d => v6'[e] = v6[e]
      /\ v12 \subseteq v12' /\ v12' \subseteq OfBoot.Nodes
  BY <1>0, <1>1, <1>3 DEF Boot!TypeOK
<1>7. OfDesk(d)
  BY <1>0, <1>1, <1>6 DEF OfDesk, Boot!Values
<1>8. v6'[d] = "write" /\ Boot!Sets(v7[d]) => v7[d].nodes \subseteq v12'
  BY <1>0, <1>1 DEF Boot!TypeOK
<1>9. Boot!CommandHolds(d)'
  BY <1>0, <1>1, <1>2, <1>4, <1>5, <1>6, <1>8 DEF Boot!CommandHolds, Boot!None
<1>10. ASSUME NEW n \in v7'[d].nodes, Boot!Apart(d, n) PROVE Boot!RowHolds(d, n)'
  <2>1. Boot!RowHolds(d, n)
    BY <1>0, <1>2, <1>10 DEF Boot!RowInv
  <2> QED
    BY <1>1, <1>2, <1>3, <1>6, <1>10, <2>1 DEF Boot!RowHolds, Boot!RowIsTrue, Boot!pxe, Boot!None
<1> QED
  BY <1>7, <1>9, <1>10, BootDesk

\* Every node has its line.
LEMMA BootWriteOver ==
  ASSUME Boot!Inv, NEW d \in OfBoot.Desks, Boot!WriteOver(d)
  PROVE  Boot!Inv'
<1>0. Boot!TypeOK /\ Boot!Values /\ Boot!CommandHolds(d) /\ Boot!RowInv
  BY DEF Boot!Inv, Boot!CommandInv
<1>1. /\ UNCHANGED <<v1, v2, Boot!pxe, v7, v8, v9, Boot!history>> /\ v6[d] = "write"
      /\ v6' = [v6 EXCEPT ![d] = "over"]
  BY DEF Boot!WriteOver, Boot!Go
<1>2. v7'[d] = v7[d] /\ v8'[d] = v8[d] /\ v9'[d] = v9[d] /\ v6'[d] = "over"
  BY <1>0, <1>1 DEF Boot!TypeOK
<1>3. OfDesk(d)
  BY <1>0, <1>1 DEF OfDesk, Boot!TypeOK, Boot!Values, Boot!history
<1>4. Boot!Resolvable(v7[d])' /\ v8'[d] = Boot!Resolved(v7[d])'
  BY <1>0, <1>1, <1>2, BootSteady DEF Boot!CommandHolds, Boot!Knows
<1>5. Boot!CommandHolds(d)'
  BY <1>0, <1>1, <1>2, <1>4 DEF Boot!CommandHolds, Boot!Sets, Boot!None
<1>6. ASSUME NEW n \in v7'[d].nodes, Boot!Apart(d, n) PROVE Boot!RowHolds(d, n)'
  <2>1. Boot!RowHolds(d, n)
    BY <1>0, <1>2, <1>6 DEF Boot!RowInv
  <2> QED
    BY <1>1, <1>2, <2>1 DEF Boot!RowHolds, Boot!RowIsTrue, Boot!pxe, Boot!history
<1> QED
  BY <1>3, <1>5, <1>6, BootDesk

\* What a record of a script finds: its node owns the address that is written.
LEMMA BootWrites ==
  ASSUME Boot!Inv, NEW d \in OfBoot.Desks, NEW n \in OfBoot.Nodes, v6[d] = "write",
         n \in v7[d].nodes
  PROVE  /\ v7[d] \in OfBoot.Asked[d] /\ Boot!Resolvable(v7[d]) /\ v8[d] = Boot!Resolved(v7[d])
         /\ v8[d][n].address = Boot!AddressOf(n) /\ Boot!Owns(n, v8[d][n].address)
         /\ v8[d][n].address \in Boot!AllAddresses
         /\ v7[d].verb = "set" => v8[d][n].mode \in {"once", "persistent"}
         /\ v7[d].verb = "set" /\ ~OfBoot.Suffix => v8[d][n].mode = "once"
         /\ Boot!Sets(v7[d]) => v8[d][n].path \in OfBoot.Paths /\ n \in v12
<1>1. Boot!CommandHolds(d) /\ Boot!Values
  BY DEF Boot!Inv, Boot!CommandInv
<1>2. v7[d] \in OfBoot.Asked[d] /\ Boot!Resolvable(v7[d]) /\ v8[d] = Boot!Resolved(v7[d])
  BY <1>1 DEF Boot!CommandHolds, Boot!Knows
<1>3. /\ Boot!Owns(n, Boot!AddressOf(n)) /\ v8[d][n].address = Boot!AddressOf(n)
      /\ v7[d].verb = "set" => v8[d][n].mode \in {"once", "persistent"}
      /\ v7[d].verb = "set" /\ ~OfBoot.Suffix => v8[d][n].mode = "once"
  BY <1>2, BootOwnsItsLinks
<1>4. Boot!AddressOf(n) \in Boot!AllAddresses
  BY <1>1, <1>3, BootChosen, BootAddressKnown DEF Boot!Owns
<1>5. Boot!Sets(v7[d]) => v8[d][n].path \in OfBoot.Paths /\ n \in v12
  BY <1>1 DEF Boot!CommandHolds
<1> QED
  BY <1>2, <1>3, <1>4, <1>5

\* What a row is about stays as it is while the links of its address do.
LEMMA BootRowStays ==
  ASSUME NEW d \in OfBoot.Desks, NEW n, Boot!RowHolds(d, n),
         v6'[d] = v6[d], v7'[d] = v7[d], v8'[d] = v8[d], v9'[d][n] = v9[d][n],
         v3'[v8[d][n].address] = v3[v8[d][n].address],
         v4'[v8[d][n].address] = v4[v8[d][n].address],
         v13[n] > 0 => v13'[n] > 0
  PROVE  Boot!RowHolds(d, n)'
BY DEF Boot!RowHolds, Boot!RowIsTrue

\* A row that says something, or a link that is still to be written, is of an
\* address its node owns.
LEMMA BootSpeaks ==
  ASSUME Boot!Inv, NEW d \in OfBoot.Desks, NEW n \in v7[d].nodes,
         v9[d][n] # Boot!None \/ v6[d] \in {"confirm", "write"}
  PROVE  n \in OfBoot.Nodes /\ Boot!Owns(n, v8[d][n].address)
         /\ v8[d][n].address \in Boot!AllAddresses
<1>1. Boot!CommandHolds(d) /\ Boot!Values
  BY DEF Boot!Inv, Boot!CommandInv
<1>2. n \in OfBoot.Nodes
  BY <1>1, BootGiven DEF Boot!CommandHolds, Boot!NoCommand, Boot!Command
<1>3. Boot!Resolvable(v7[d]) /\ v8[d] = Boot!Resolved(v7[d])
  BY <1>1, <1>2 DEF Boot!CommandHolds, Boot!Knows
<1>4. Boot!Owns(n, Boot!AddressOf(n)) /\ v8[d][n].address = Boot!AddressOf(n)
  BY <1>3, BootOwnsItsLinks
<1> QED
  BY <1>1, <1>2, <1>4, BootChosen, BootAddressKnown DEF Boot!Owns

\* A node that says nothing yet holds for nothing.
LEMMA BootSilent ==
  ASSUME NEW d, NEW n, v9[d][n] = Boot!None, v6[d] \notin {"confirm", "write"}
  PROVE  Boot!RowHolds(d, n)
BY DEF Boot!RowHolds, Boot!RowIsTrue, Boot!None

\* A record of a script, or ln or rm on the TFTP host.
LEMMA BootRecord ==
  ASSUME Boot!AddressesAreOwn, Boot!Inv, NEW d \in OfBoot.Desks, NEW n \in OfBoot.Nodes,
         Boot!Record(d, n)
  PROVE  Boot!Inv'
<1> DEFINE l == v8[d][n]
<1> DEFINE a == v8[d][n].address
<1>0. Boot!TypeOK /\ Boot!Values /\ Boot!CommandInv /\ Boot!OwnInv /\ Boot!GrantInv /\ Boot!RowInv
  BY DEF Boot!Inv
<1>1. /\ v6[d] = "write" /\ n \in v7[d].nodes /\ v9[d][n] = Boot!None
      /\ UNCHANGED <<v1, v2, v6, v7, v8, v12, v13>>
  BY DEF Boot!Record
<1>2. PICK r \in {"set", "removed", "failed", "unknown"} :
        /\ v9' = [v9 EXCEPT ![d] = [@ EXCEPT ![n] = r]]
        /\ \/ Boot!Act(d, n) /\ r \in {Boot!Done(v7[d]), "unknown"}
           \/ UNCHANGED <<Boot!pxe, v10, v11>> /\ r \in {"failed", "unknown"}
  BY DEF Boot!Record, Boot!Report, Boot!Done
<1>3. /\ v7[d] \in OfBoot.Asked[d] /\ Boot!Owns(n, a) /\ a \in Boot!AllAddresses
      /\ n \in OfBoot.Machines
      /\ v7[d].verb = "set" => l.mode \in {"once", "persistent"}
      /\ v7[d].verb = "set" /\ ~OfBoot.Suffix => l.mode = "once"
      /\ Boot!Sets(v7[d]) => l.path \in OfBoot.Paths /\ n \in v12
  BY <1>1, BootWrites, BootGiven
\* The addresses of other nodes are left alone; what is written is the path.
<1>4. /\ v3' \in [Boot!AllAddresses -> OfBoot.Paths \cup {Boot!None}]
      /\ v4' \in [Boot!AllAddresses -> OfBoot.Paths \cup {Boot!None}]
      /\ v5' \in [Boot!AllAddresses -> OfBoot.Paths \cup {Boot!None}]
      /\ v10' \in [OfBoot.Machines -> Nat] /\ v11' \subseteq OfBoot.Nodes
  <2>1. CASE UNCHANGED <<Boot!pxe, v10, v11>>
    BY <1>0, <2>1 DEF Boot!TypeOK, Boot!Values, Boot!pxe
  <2>2. CASE v7[d].verb = "set" /\ Boot!Written(n, l)
    <3>1. l.path \in OfBoot.Paths
      BY <1>3, <2>2 DEF Boot!Sets
    <3> QED
      BY <1>0, <1>3, <2>2, <3>1 DEF Boot!Written, Boot!TypeOK, Boot!Values
  <2>3. CASE Boot!Removed(n, l)
    BY <1>0, <1>3, <2>3 DEF Boot!Removed, Boot!TypeOK, Boot!Values
  <2>4. CASE v7[d].verb = "grub_set" /\ Boot!Grub(l, l.path)
    <3>1. l.path \in OfBoot.Paths
      BY <1>3, <2>4 DEF Boot!Sets
    <3> QED
      BY <1>0, <1>3, <2>4, <3>1 DEF Boot!Grub, Boot!TypeOK, Boot!Values
  <2>5. CASE Boot!Grub(l, Boot!None)
    BY <1>0, <1>3, <2>5 DEF Boot!Grub, Boot!TypeOK, Boot!Values
  <2> QED
    BY <1>2, <2>1, <2>2, <2>3, <2>4, <2>5 DEF Boot!Act
<1>5. \A b \in Boot!AllAddresses : b # a => v3'[b] = v3[b] /\ v4'[b] = v4[b] /\ v5'[b] = v5[b]
  BY <1>0, <1>2 DEF Boot!Act, Boot!Written, Boot!Removed, Boot!Grub, Boot!Values, Boot!pxe
<1>6. v3'[a] # Boot!None \/ v4'[a] # Boot!None \/ v5'[a] # Boot!None
      => Boot!Linked(a) \/ Boot!Sets(v7[d])
  <2>1. CASE UNCHANGED <<Boot!pxe, v10, v11>>
    BY <2>1 DEF Boot!Linked, Boot!pxe
  <2>2. CASE Boot!Removed(n, l)
    BY <1>0, <1>3, <2>2 DEF Boot!Removed, Boot!Linked, Boot!Values
  <2>3. CASE Boot!Grub(l, Boot!None)
    BY <1>0, <1>3, <2>3 DEF Boot!Grub, Boot!Linked, Boot!Values
  <2> QED
    BY <1>2, <2>1, <2>2, <2>3 DEF Boot!Act, Boot!Sets
<1>7. /\ \A m \in OfBoot.Machines : m # n => v10'[m] = v10[m]
      /\ v10'[n] >= v10[n]
      /\ v3'[a] # Boot!None => v3[a] # Boot!None \/ v10'[n] > v10[n]
  BY <1>0, <1>2, <1>3 DEF Boot!Act, Boot!Written, Boot!Removed, Boot!Grub, Boot!Values, Boot!pxe
<1>8. v9' \in [OfBoot.Desks -> [OfBoot.Nodes -> {Boot!None, "set", "removed", "failed", "unknown"}]]
  BY <1>0, <1>2 DEF Boot!TypeOK
<1>9. /\ v9'[d][n] = r /\ r # Boot!None
      /\ \A e \in OfBoot.Desks, k \in OfBoot.Nodes : e # d \/ k # n => v9'[e][k] = v9[e][k]
  BY <1>0, <1>2 DEF Boot!TypeOK, Boot!None
<1>10. Boot!TypeOK' /\ Boot!Values'
  BY <1>0, <1>1, <1>4, <1>8 DEF Boot!TypeOK, Boot!Values, Boot!Addresses, Boot!AllAddresses
<1>11. Boot!OwnInv'
  <2> SUFFICES ASSUME NEW b \in Boot!AllAddresses,
                      Boot!Linked(b)' PROVE \E m \in v12 : Boot!Owns(m, b)
    BY <1>1, BootSteady DEF Boot!OwnInv, Boot!AllAddresses
  <2>1. Boot!Linked(b) \/ (b = a /\ Boot!Sets(v7[d]))
    <3>1. CASE b = a
      BY <1>6, <3>1 DEF Boot!Linked
    <3>2. CASE b # a
      BY <1>5, <3>2 DEF Boot!Linked
    <3> QED
      BY <3>1, <3>2
  <2> QED
    BY <1>0, <1>3, <2>1 DEF Boot!OwnInv
<1>12. Boot!GrantInv'
  <2>1. \A m \in OfBoot.Machines : v13'[m] <= v10'[m] /\ (v13'[m] > 0 => m \in v12')
    BY <1>0, <1>1, <1>3, <1>4, <1>7 DEF Boot!GrantInv, Boot!Values
  <2>2. ASSUME NEW m \in OfBoot.Nodes, NEW b \in Boot!AllAddresses, Boot!Owns(m, b),
               v3'[b] # Boot!None
        PROVE  v13[m] < v10'[m]
    <3>1. m \in OfBoot.Machines
      BY BootGiven
    <3>2. CASE b = a
      <4>1. m = n
        BY <1>0, <1>3, <2>2, <3>2, BootOneOwner
      <4> QED
        BY <1>0, <1>3, <1>4, <1>7, <2>2, <3>2, <4>1 DEF Boot!GrantInv, Boot!Values
    <3>3. CASE b # a
      BY <1>0, <1>3, <1>4, <1>5, <1>7, <2>2, <3>1, <3>3 DEF Boot!GrantInv, Boot!Values
    <3> QED
      BY <3>2, <3>3
  <2> QED
    BY <1>1, <2>1, <2>2, BootSteady DEF Boot!GrantInv, Boot!AllAddresses
<1>13. Boot!CommandInv'
  <2> SUFFICES ASSUME NEW e \in OfBoot.Desks PROVE Boot!CommandHolds(e)'
    BY DEF Boot!CommandInv
  <2>1. Boot!CommandHolds(e)
    BY <1>0 DEF Boot!CommandInv
  <2>2. Boot!Resolvable(v7[e]) /\ v8[e] = Boot!Resolved(v7[e])
        => Boot!Resolvable(v7[e])' /\ v8'[e] = Boot!Resolved(v7[e])'
    BY <1>1, BootSteady
  <2>3. CASE e # d
    <3>1. \A k \in OfBoot.Nodes : v9'[e][k] = v9[e][k]
      BY <1>9, <2>3
    <3> QED
      BY <1>1, <2>1, <2>2, <3>1 DEF Boot!CommandHolds, Boot!Knows, Boot!Sets
  <2>4. CASE e = d
    <3>1. \A k \in OfBoot.Nodes : v9'[d][k] = v9[d][k] \/ (v9'[d][k] = r /\ k = n)
      BY <1>9
    <3>2. r = "set" => Boot!Sets(v7[d])
      BY <1>2 DEF Boot!Done
    <3>3. r = "removed" => ~Boot!Sets(v7[d])
      BY <1>2 DEF Boot!Done
    <3> QED
      BY <1>1, <2>1, <2>2, <2>4, <3>1, <3>2, <3>3 DEF Boot!CommandHolds, Boot!Knows, Boot!Sets
  <2> QED
    BY <2>3, <2>4
<1>14. Boot!RowInv'
  <2>1. ~OfBoot.Suffix => \A b \in Boot!AllAddresses : v4'[b] = Boot!None
    BY <1>0, <1>2, <1>3, <1>5 DEF Boot!RowInv, Boot!Act, Boot!Written, Boot!Removed, Boot!Grub,
       Boot!Values, Boot!pxe
  <2>2. ASSUME NEW e \in OfBoot.Desks, NEW k \in v7[e].nodes, Boot!Apart(e, k), e # d \/ k # n
        PROVE  Boot!RowHolds(e, k)'
    <3>1. k \in OfBoot.Nodes /\ v9'[e][k] = v9[e][k]
      BY <1>0, <1>9, <2>2, BootGiven DEF Boot!CommandInv, Boot!CommandHolds, Boot!NoCommand,
         Boot!Command
    <3>2. CASE v9[e][k] # Boot!None \/ v6[e] \in {"confirm", "write"}
      <4>1. Boot!Owns(k, v8[e][k].address) /\ v8[e][k].address \in Boot!AllAddresses
        BY <2>2, <3>2, BootSpeaks
      <4>2. k # n
        BY <1>1, <2>2 DEF Boot!Apart
      <4>3. v8[e][k].address # a
        BY <1>0, <1>3, <3>1, <4>1, <4>2, BootOneOwner
      <4>4. Boot!RowHolds(e, k)
        BY <1>0, <2>2 DEF Boot!RowInv
      <4> QED
        BY <1>1, <1>5, <3>1, <4>1, <4>3, <4>4, BootRowStays
    <3>3. CASE ~(v9[e][k] # Boot!None \/ v6[e] \in {"confirm", "write"})
      BY <1>1, <3>1, <3>3 DEF Boot!RowHolds, Boot!RowIsTrue, Boot!None
    <3> QED
      BY <3>2, <3>3
  <2>3. ASSUME Boot!Apart(d, n) PROVE Boot!RowHolds(d, n)'
    <3>1. Boot!RowHolds(d, n)
      BY <1>0, <1>1, <2>3 DEF Boot!RowInv
    <3>2. r = "removed" /\ v7[d].verb = "unset" => v3'[a] = Boot!None /\ v4'[a] = Boot!None
      <4> SUFFICES ASSUME r = "removed",
                          v7[d].verb = "unset" PROVE v3'[a] = Boot!None /\ v4'[a] = Boot!None
        OBVIOUS
      <4>1. Boot!Removed(n, l)
        BY <1>2 DEF Boot!Act
      <4> QED
        BY <1>0, <1>3, <2>1, <4>1 DEF Boot!Removed, Boot!Values
    <3>3. r = "set" /\ v7[d].verb = "set" =>
            /\ l.mode = "persistent" => v4'[a] = l.path
            /\ l.mode = "once" => v3'[a] = l.path /\ v4'[a] = Boot!None
      <4> SUFFICES ASSUME r = "set", v7[d].verb = "set"
          PROVE  /\ l.mode = "persistent" => v4'[a] = l.path
                 /\ l.mode = "once" => v3'[a] = l.path /\ v4'[a] = Boot!None
        OBVIOUS
      <4>1. Boot!Written(n, l)
        BY <1>2 DEF Boot!Act
      <4> QED
        BY <1>0, <1>1, <1>3, <3>1, <4>1 DEF Boot!Written, Boot!Values, Boot!RowHolds
    <3>4. v7[d].verb = "set" /\ l.mode = "once" => v4'[a] = Boot!None
      <4> SUFFICES ASSUME v7[d].verb = "set", l.mode = "once" PROVE v4'[a] = Boot!None
        OBVIOUS
      <4>1. v4[a] = Boot!None
        BY <1>1, <3>1 DEF Boot!RowHolds
      <4> QED
        BY <1>2, <4>1 DEF Boot!Act, Boot!Written, Boot!pxe
    <3> QED
      BY <1>1, <1>9, <3>2, <3>3, <3>4 DEF Boot!RowHolds, Boot!RowIsTrue
  <2>4. \A e \in OfBoot.Desks : \A k : Boot!Apart(e, k)' <=> Boot!Apart(e, k)
    BY <1>1 DEF Boot!Apart
  <2> QED
    BY <1>1, <2>1, <2>2, <2>3, <2>4 DEF Boot!RowInv, Boot!AllAddresses
<1> QED
  BY <1>10, <1>11, <1>12, <1>13, <1>14 DEF Boot!Inv

\* What a machine takes is an address links can be named after.
LEMMA BootTakenKnown ==
  ASSUME Boot!Values, NEW m \in OfBoot.Machines, NEW a \in Boot!Taken(m)
  PROVE  a \in Boot!AllAddresses
<1>1. CASE m \in OfBoot.Nodes
  BY <1>1, BootAddressKnown DEF Boot!Taken
<1>2. CASE m \notin OfBoot.Nodes
  <2>1. a \in UNION {e.addrs : e \in Boot!ByName(m)}
    BY <1>2 DEF Boot!Taken
  <2>2. PICK e \in Boot!ByName(m) : a \in e.addrs
    BY <2>1
  <2>3. e \in v1.dhcp /\ v1 \in OfBoot.Worlds
    BY <2>2 DEF Boot!ByName, Boot!Values
  <2>4. a # Boot!None
    BY <2>2, <2>3, BootGiven
  <2> QED
    BY <2>2, <2>3, <2>4, BootOneOfAll
<1> QED
  BY <1>1, <1>2

\* A machine boots and is given its one-shot link.
LEMMA BootRequest ==
  ASSUME Boot!AddressesAreOwn, Boot!Inv, NEW m \in OfBoot.Machines, Boot!Request(m)
  PROVE  Boot!Inv'
<1>0. Boot!TypeOK /\ Boot!Values /\ Boot!CommandInv /\ Boot!OwnInv /\ Boot!GrantInv /\ Boot!RowInv
  BY DEF Boot!Inv
<1>1. /\ UNCHANGED <<v1, v2, v4, v5, v6, v7, v8, v9, v10, v11, v12>>
      /\ v13' = [v13 EXCEPT ![m] = @ + 1]
  BY DEF Boot!Request
<1>2. PICK a \in Boot!Taken(m) : v3[a] # Boot!None /\ v3' = [v3 EXCEPT ![a] = Boot!None]
  BY DEF Boot!Request
<1>3. a \in Boot!AllAddresses
  BY <1>0, BootTakenKnown
<1>4. PICK n \in v12 : Boot!Owns(n, a)
  BY <1>0, <1>2, <1>3 DEF Boot!OwnInv, Boot!Linked
<1>5. n = m /\ n \in OfBoot.Nodes
  BY <1>0, <1>4, BootTakenBy DEF Boot!TypeOK
<1>6. \A b \in Boot!AllAddresses : b # a => v3'[b] = v3[b]
  BY <1>0, <1>2 DEF Boot!Values
<1>7. v3'[a] = Boot!None
  BY <1>0, <1>2, <1>3 DEF Boot!Values
<1>8. v13'[m] = v13[m] + 1 /\ \A k \in OfBoot.Machines : k # m => v13'[k] = v13[k]
  BY <1>0, <1>1 DEF Boot!Values
<1>9. v13[m] < v10[m] /\ v13[m] \in Nat /\ v10[m] \in Nat
  BY <1>0, <1>2, <1>3, <1>4, <1>5 DEF Boot!GrantInv, Boot!Values
<1>10. Boot!TypeOK' /\ Boot!Values'
  BY <1>0, <1>1, <1>2, <1>3 DEF Boot!TypeOK, Boot!Values, Boot!Addresses, Boot!AllAddresses
<1>11. Boot!CommandInv'
  <2> SUFFICES ASSUME NEW e \in OfBoot.Desks PROVE Boot!CommandHolds(e)'
    BY DEF Boot!CommandInv
  <2>1. Boot!CommandHolds(e)
    BY <1>0 DEF Boot!CommandInv
  <2>2. Boot!Resolvable(v7[e]) /\ v8[e] = Boot!Resolved(v7[e])
        => Boot!Resolvable(v7[e])' /\ v8'[e] = Boot!Resolved(v7[e])'
    BY <1>1, BootSteady
  <2> QED
    BY <1>1, <2>1, <2>2 DEF Boot!CommandHolds, Boot!Knows, Boot!Sets
<1>12. Boot!OwnInv'
  <2> SUFFICES ASSUME NEW b \in Boot!AllAddresses,
                      Boot!Linked(b)' PROVE \E k \in v12 : Boot!Owns(k, b)
    BY <1>1, BootSteady DEF Boot!OwnInv, Boot!AllAddresses
  <2>1. Boot!Linked(b)
    BY <1>1, <1>6, <1>7 DEF Boot!Linked
  <2> QED
    BY <1>0, <2>1 DEF Boot!OwnInv
<1>13. Boot!GrantInv'
  <2>1. \A k \in OfBoot.Machines : v13'[k] <= v10'[k] /\ (v13'[k] > 0 => k \in v12')
    BY <1>0, <1>1, <1>4, <1>5, <1>8, <1>9 DEF Boot!GrantInv
  <2>2. ASSUME NEW k \in OfBoot.Nodes, NEW b \in Boot!AllAddresses, Boot!Owns(k, b),
               v3'[b] # Boot!None
        PROVE  v13'[k] < v10'[k]
    <3>1. b # a /\ v3[b] # Boot!None
      BY <1>6, <1>7, <2>2
    <3>2. k # n
      BY <1>4, <2>2, <3>1 DEF Boot!Owns
    <3> QED
      BY <1>0, <1>1, <1>5, <1>8, <2>2, <3>1, <3>2, BootGiven DEF Boot!GrantInv
  <2> QED
    BY <1>1, <2>1, <2>2, BootSteady DEF Boot!GrantInv, Boot!AllAddresses
<1>14. Boot!RowInv'
  <2>1. ASSUME NEW e \in OfBoot.Desks, NEW k \in v7[e].nodes, Boot!Apart(e, k)
        PROVE  Boot!RowHolds(e, k)'
    <3>1. Boot!RowHolds(e, k) /\ k \in OfBoot.Nodes
      BY <1>0, <2>1, BootGiven DEF Boot!RowInv, Boot!CommandInv, Boot!CommandHolds,
         Boot!NoCommand, Boot!Command
    <3>2. CASE v9[e][k] # Boot!None \/ v6[e] \in {"confirm", "write"}
      <4>1. Boot!Owns(k, v8[e][k].address) /\ v8[e][k].address \in Boot!AllAddresses
        BY <2>1, <3>2, BootSpeaks
      <4>2. CASE v8[e][k].address = a
        <5>1. k = m
          BY <1>0, <1>4, <1>5, <3>1, <4>1, <4>2, BootOneOwner
        <5>2. v13'[k] > 0
          BY <1>8, <1>9, <5>1
        <5> QED
          BY <1>1, <1>7, <3>1, <4>2, <5>2 DEF Boot!RowHolds, Boot!RowIsTrue
      <4>3. CASE v8[e][k].address # a
        <5>1. v13[k] > 0 => v13'[k] > 0
          BY <1>8, <1>9, <3>1, BootGiven
        <5>2. v3'[v8[e][k].address] = v3[v8[e][k].address]
          BY <1>6, <4>1, <4>3
        <5> QED
          BY <1>1, <3>1, <5>1, <5>2, BootRowStays
      <4> QED
        BY <4>2, <4>3
    <3>3. CASE ~(v9[e][k] # Boot!None \/ v6[e] \in {"confirm", "write"})
      BY <1>1, <3>3 DEF Boot!RowHolds, Boot!RowIsTrue, Boot!None
    <3> QED
      BY <3>2, <3>3
  <2>2. \A e \in OfBoot.Desks : \A k : Boot!Apart(e, k)' <=> Boot!Apart(e, k)
    BY <1>1 DEF Boot!Apart
  <2> QED
    BY <1>0, <1>1, <2>1, <2>2 DEF Boot!RowInv, Boot!AllAddresses
<1> QED
  BY <1>10, <1>11, <1>12, <1>13, <1>14 DEF Boot!Inv

\* A boot configuration is taken away, or nothing happens.
LEMMA BootStands ==
  ASSUME Boot!Inv, (\E p \in OfBoot.Paths : Boot!Vanish(p)) \/ UNCHANGED Boot!vars
  PROVE  Boot!Inv'
<1>0. Boot!TypeOK /\ Boot!Values /\ Boot!CommandInv /\ Boot!OwnInv /\ Boot!GrantInv /\ Boot!RowInv
  BY DEF Boot!Inv
<1>1. /\ UNCHANGED <<v1, v3, v4, v5, v6, v7, v8, v9, v10, v11, v12, v13>>
      /\ UNCHANGED Boot!pxe /\ v2' \subseteq v2
  BY DEF Boot!Vanish, Boot!vars, Boot!pxe, Boot!history
<1>2. Boot!OwnInv' /\ Boot!GrantInv'
  BY <1>1, BootQuiet
<1>3. Boot!TypeOK' /\ Boot!Values'
  BY <1>0, <1>1 DEF Boot!TypeOK, Boot!Values, Boot!Addresses, Boot!AllAddresses
<1>4. Boot!CommandInv'
  <2> SUFFICES ASSUME NEW e \in OfBoot.Desks PROVE Boot!CommandHolds(e)'
    BY DEF Boot!CommandInv
  <2>1. Boot!CommandHolds(e)
    BY <1>0 DEF Boot!CommandInv
  <2>2. Boot!Resolvable(v7[e]) /\ v8[e] = Boot!Resolved(v7[e])
        => Boot!Resolvable(v7[e])' /\ v8'[e] = Boot!Resolved(v7[e])'
    BY <1>1, BootSteady
  <2> QED
    BY <1>1, <2>1, <2>2 DEF Boot!CommandHolds, Boot!Knows, Boot!Sets
<1>5. Boot!RowInv'
  <2>1. \A e \in OfBoot.Desks : \A k : (Boot!Apart(e, k)' <=> Boot!Apart(e, k))
        /\ (Boot!RowHolds(e, k) => Boot!RowHolds(e, k)')
    BY <1>1 DEF Boot!Apart, Boot!RowHolds, Boot!RowIsTrue
  <2> QED
    BY <1>0, <1>1, <2>1 DEF Boot!RowInv, Boot!AllAddresses
<1> QED
  BY <1>2, <1>3, <1>4, <1>5 DEF Boot!Inv

\* No step breaks the invariant.
LEMMA BootStep ==
  ASSUME Boot!AddressesAreOwn, Boot!Inv, [Boot!Next]_(Boot!vars)
  PROVE  Boot!Inv'
BY BootType, BootResolve, BootCheck, BootConfirm, BootWriteOver, BootRecord, BootRequest,
   BootStands DEF Boot!Next

\* What the invariant promises.
LEMMA BootKeeps ==
  ASSUME Boot!AddressesAreOwn, Boot!Inv
  PROVE  Boot!OnlyNamedBoot /\ Boot!LinksAreAsReported
<1>0. Boot!TypeOK /\ Boot!Values /\ Boot!CommandInv /\ Boot!OwnInv /\ Boot!GrantInv /\ Boot!RowInv
  BY DEF Boot!Inv
<1>1. Boot!OnlyNamedBoot
  <2> SUFFICES ASSUME NEW m \in OfBoot.Machines, Boot!Finds(m) # {} \/ v13[m] > 0 PROVE m \in v12
    BY DEF Boot!OnlyNamedBoot
  <2>1. CASE v13[m] > 0
    BY <1>0, <2>1 DEF Boot!GrantInv
  <2>2. CASE Boot!Finds(m) # {}
    <3>1. PICK a \in Boot!Taken(m) : Boot!Linked(a)
      BY <2>2 DEF Boot!Finds, Boot!Linked
    <3>2. a \in Boot!AllAddresses
      BY <1>0, BootTakenKnown
    <3>3. PICK n \in v12 : Boot!Owns(n, a)
      BY <1>0, <3>1, <3>2 DEF Boot!OwnInv
    <3>4. n \in OfBoot.Nodes
      BY <1>0 DEF Boot!TypeOK
    <3> QED
      BY <1>0, <3>3, <3>4, BootTakenBy
  <2> QED
    BY <2>1, <2>2
<1>2. Boot!LinksAreAsReported
  BY <1>0 DEF Boot!LinksAreAsReported, Boot!GrantInv, Boot!RowInv, Boot!RowHolds
<1> QED
  BY <1>1, <1>2

\* A step of the whole is one of the component, or of another scene.
LEMMA BootScene ==
  ASSUME [Next]_vars
  PROVE  /\ scene' = scene
         /\ scene = "boot" => [Boot!Next]_(Boot!vars)
BY DEF Next, vars, Boot!vars

\* The invariant of the component is one of the whole.
LEMMA BootAlways ==
  ASSUME Boot!AddressesAreOwn
  PROVE  Spec => [](scene = "boot" => Boot!Inv)
<1>1. Init => (scene = "boot" => Boot!Inv)
  BY BootBegins DEF Init, Begin
<1>2. (scene = "boot" => Boot!Inv) /\ [Next]_vars => (scene = "boot" => Boot!Inv)'
  BY BootScene, BootStep
<1> QED
  BY <1>1, <1>2, PTL DEF Spec

\* From however many desks, whatever the nodes do meanwhile: a node boots into
\* what was set for it, a link is only written or removed for a node that was
\* named, and a row says what is there, in every world where the addresses of the
\* inventory and of DHCP are each machine's own.  (set, clear, status)
THEOREM BootIsAsAsked ==
  ASSUME Boot!AddressesAreOwn
  PROVE  Spec => []BootIsAsNamed
<1>1. (scene = "boot" => Boot!Inv) => BootIsAsNamed
  BY BootKeeps DEF BootIsAsNamed
<1> QED
  BY <1>1, BootAlways, PTL

(***************************************************************************)
(* The name servers.  What was found of a name is what the zone holds of   *)
(* the types that were asked for (KnownInv); who was asked and who is      *)
(* still to be asked are all the servers (AnswerInv); and a server that is *)
(* silent all along has cost no more than the lookups that had begun when  *)
(* it was marked, those that still have it before a server that answers    *)
(* included (CostInv).                                                     *)
(*                                                                         *)
(* The registers: v1 verb, v2 zone, v3 server, v4 silent, v5 phase, v6 pc, *)
(* v7 todo, v8 order, v9 missing, v10 chain, v11 addresses, v12 answer,    *)
(* v13 interrupted, v14 turns, v15 was, v16 timeouts, v17 heard.           *)
(***************************************************************************)
\* What is assumed of the constants.
LEMMA DnsGiven ==
  /\ OfDns.Servers \in Nat \ {0} /\ OfDns.Limit \in Nat \ {0} /\ OfDns.maxCNAMEs \in Nat \ {0}
  /\ OfDns.Turns \in Nat
  /\ OfDns.Names \cap Dns!Addresses = {} /\ Dns!IsFiniteSet(Dns!Items)
BY CommandsConstants DEF CommandsConstants, Dns!DnsConstants

\* The parts of the invariant.
LEMMA DnsParts ==
  ASSUME Dns!Inv
  PROVE  Dns!TypeOK /\ Dns!Values /\ Dns!KnownInv /\ Dns!AnswerInv /\ Dns!CostInv
BY DEF Dns!Inv

\* The sets of Dns that are finite, and how many elements they have.
LEMMA DnsSizes ==
  \A S : (Dns!IsFiniteSet(S) <=> IsFiniteSet(S)) /\ Dns!Cardinality(S) = Cardinality(S)
BY DEF Dns!IsFiniteSet, Dns!Cardinality, IsFiniteSet, Cardinality

\* A finite set with one more, and with one less.
LEMMA DnsFinite ==
  /\ Dns!IsFiniteSet({}) /\ Dns!Cardinality({}) = 0
  /\ \A S, x : Dns!IsFiniteSet(S) =>
       /\ Dns!Cardinality(S) \in Nat
       /\ Dns!IsFiniteSet(S \cup {x}) /\ Dns!Cardinality(S \cup {x}) <= Dns!Cardinality(S) + 1
       /\ x \in S => Dns!Cardinality(S \ {x}) = Dns!Cardinality(S) - 1
  /\ \A S, T : Dns!IsFiniteSet(S) /\ T \subseteq S => Dns!IsFiniteSet(T) /\ Dns!Cardinality(T) <= Dns!Cardinality(S)
<1>1. Dns!IsFiniteSet({}) /\ Dns!Cardinality({}) = 0
  BY FS_EmptySet, DnsSizes
<1>2. ASSUME NEW S, NEW x, Dns!IsFiniteSet(S)
      PROVE  /\ Dns!Cardinality(S) \in Nat
             /\ Dns!IsFiniteSet(S \cup {x}) /\ Dns!Cardinality(S \cup {x}) <= Dns!Cardinality(S) + 1
             /\ x \in S => Dns!Cardinality(S \ {x}) = Dns!Cardinality(S) - 1
  <2>1. Dns!Cardinality(S) \in Nat
    BY <1>2, FS_CardinalityType, DnsSizes
  <2>2. Dns!IsFiniteSet(S \cup {x}) /\ Dns!Cardinality(S \cup {x}) <= Dns!Cardinality(S) + 1
    BY <1>2, <2>1, FS_AddElement, DnsSizes
  <2>3. x \in S => Dns!Cardinality(S \ {x}) = Dns!Cardinality(S) - 1
    BY <1>2, <2>1, FS_RemoveElement, DnsSizes
  <2> QED
    BY <2>1, <2>2, <2>3
<1>3. ASSUME NEW S, NEW T, Dns!IsFiniteSet(S), T \subseteq S
      PROVE  Dns!IsFiniteSet(T) /\ Dns!Cardinality(T) <= Dns!Cardinality(S)
  BY <1>3, FS_Subset, DnsSizes
<1> QED
  BY <1>1, <1>2, <1>3

\* So many numbers.
LEMMA DnsInterval ==
  ASSUME NEW m \in Nat
  PROVE  Dns!IsFiniteSet(1..m) /\ Dns!Cardinality(1..m) = m
<1> DEFINE S == 1..m
<1>1. IsFiniteSet(S) /\ Cardinality(S) = m
  BY FS_Interval
<1> HIDE DEF S
<1>2. Dns!IsFiniteSet(S) /\ Dns!Cardinality(S) = m
  BY <1>1, DnsSizes
<1> QED
  BY <1>2 DEF S

\* How long the lists of types are, and what is next in each.
LEMMA DnsTypes ==
  /\ Tail(Tail(Dns!Types)) = <<>> /\ Tail(Dns!ReverseTypes) = <<>>
  /\ Head(Dns!Types) = "A" /\ Head(Tail(Dns!Types)) = "AAAA" /\ Head(Dns!ReverseTypes) = "PTR"
  /\ Len(Dns!Types) = 2 /\ Len(Tail(Dns!Types)) = 1 /\ Len(Dns!ReverseTypes) = 1
  /\ Dns!Types # <<>> /\ Tail(Dns!Types) # <<>> /\ Dns!ReverseTypes # <<>>
  /\ Dns!Types # Tail(Dns!Types) /\ Dns!Types # Dns!ReverseTypes
  /\ Tail(Dns!Types) # Dns!ReverseTypes
<1>1. Dns!Types = <<"A", "AAAA">> /\ Dns!ReverseTypes = <<"PTR">>
  BY DEF Dns!Types, Dns!ReverseTypes
<1>2. Tail(Dns!Types) = <<"AAAA">>
  BY <1>1
<1> QED
  BY <1>1, <1>2

LEMMA DnsLongTypes ==
  \A types \in {Dns!Types, Tail(Dns!Types), Dns!ReverseTypes} : Len(types) > 1
    <=> Tail(types) # <<>>
<1>1. ASSUME NEW n \in {1, 2}, NEW types, Len(types) = n PROVE Len(types) > 1 <=> n = 2
  BY <1>1
<1>2. (Len(Dns!Types) > 1 <=> 2 = 2) /\ (Len(Tail(Dns!Types)) > 1 <=> 1 = 2)
      /\ (Len(Dns!ReverseTypes) > 1 <=> 1 = 2)
  BY <1>1, DnsTypes
<1> QED
  BY <1>2, DnsTypes

\* A set of servers has a first one.
LEMMA DnsLeast ==
  ASSUME NEW S, S # {}, S \subseteq 1..OfDns.Servers
  PROVE  Dns!Least(S) \in S
<1> DEFINE R == OpToRel(<, Nat)
<1>0. S \subseteq Nat
  BY DnsGiven
<1>1. IsWellFoundedOn(R, Nat)
  BY NatLessThanWellFounded
<1>2. \A a, b \in Nat : a < b => <<a, b>> \in R
  BY DEF OpToRel
<1> HIDE DEF R
<1>3. PICK i \in S : \A y \in S : ~(<<y, i>> \in R)
  BY <1>0, <1>1, WFMin, Zenon
<1>4. ASSUME NEW j \in S PROVE i <= j
  <2>1. i \in Nat /\ j \in Nat
    BY <1>0
  <2>2. ~(j < i)
    BY <1>2, <1>3, <2>1, Zenon
  <2> QED
    BY <2>1, <2>2
<1>5. \E i0 \in S : \A j \in S : i0 <= j
  BY <1>4
<1> QED
  BY <1>5 DEF Dns!Least

\* The server a query asks is one of those it has not asked.
LEMMA DnsAsked ==
  ASSUME Dns!Values, NEW i \in Dns!Items, Dns!Left(i) # {}
  PROVE  /\ Dns!Asked(i) \in Dns!Left(i) /\ Dns!Asked(i) \in 1..OfDns.Servers
            /\ Dns!Left(i) \subseteq 1..OfDns.Servers
         /\ v8[i].first # {} => Dns!Asked(i) \in v8[i].first
<1>1. v8[i].first \subseteq 1..OfDns.Servers /\ v8[i].last \subseteq 1..OfDns.Servers
  BY DEF Dns!Values
<1>2. CASE v8[i].first # {}
  <2>1. Dns!Asked(i) = Dns!Least(v8[i].first)
    BY <1>2 DEF Dns!Asked
  <2> QED
    BY <1>1, <1>2, <2>1, DnsLeast DEF Dns!Left
<1>3. CASE v8[i].first = {}
  <2>1. Dns!Asked(i) = Dns!Least(v8[i].last) /\ v8[i].last # {}
    BY <1>3 DEF Dns!Asked, Dns!Left
  <2> QED
    BY <1>1, <1>3, <2>1, DnsLeast DEF Dns!Left
<1> QED
  BY <1>2, <1>3

\* The aliases of a name are a list.
LEMMA DnsLinks ==
  ASSUME NEW n
  PROVE  /\ Len(Dns!Links(n)) \in Nat
         /\ ~(Len(Dns!Links(n)) > 0) => Dns!Links(n) = <<>>
<1> DEFINE links == {k \in 1..OfDns.maxCNAMEs : Dns!Ends(n)[k] # Dns!None}
           steps == [k \in 1..OfDns.maxCNAMEs |-> Dns!Ends(n)[k]]
           S == {Dns!Ends(n)[k] : k \in 1..OfDns.maxCNAMEs}
           size == Dns!Cardinality(links)
<1>1. Dns!IsFiniteSet(1..OfDns.maxCNAMEs) /\ Dns!Cardinality(1..OfDns.maxCNAMEs) = OfDns.maxCNAMEs
  BY DnsGiven, DnsInterval
<1>2. links \subseteq 1..OfDns.maxCNAMEs
  OBVIOUS
<1> HIDE DEF links
<1>3. Dns!IsFiniteSet(links) /\ size <= OfDns.maxCNAMEs
  BY <1>1, <1>2, DnsFinite
<1>4. size \in Nat
  BY <1>3, DnsFinite
<1>5. \A k \in 1..OfDns.maxCNAMEs : steps[k] \in S
  OBVIOUS
<1>6. Dns!Links(n) = SubSeq(steps, 1, size)
  BY DEF Dns!Links, links
<1> HIDE DEF steps, S, size
<1>7. \A k \in 1..size : steps[k] \in S
  BY <1>3, <1>4, <1>5, DnsGiven
<1>8. SubSeq(steps, 1, size) \in Seq(S)
  BY <1>4, <1>7, SubSeqProperties
<1>9. Dns!Links(n) \in Seq(S)
  BY <1>6, <1>8
<1> QED
  BY <1>9

\* What the zone holds does not change.
LEMMA DnsZone ==
  ASSUME v2' = v2, NEW n
  PROVE  /\ Dns!Exists(n)' = Dns!Exists(n) /\ Dns!Links(n)' = Dns!Links(n)
            /\ Dns!EndOf(n)' = Dns!EndOf(n)
         /\ \A type : Dns!Held(n, type)' = Dns!Held(n, type)
<1>1. Dns!Ends(n)' = Dns!Ends(n)
  BY DEF Dns!Ends
<1>2. Dns!Links(n)' = Dns!Links(n)
  BY <1>1 DEF Dns!Links
<1>3. Dns!EndOf(n)' = Dns!EndOf(n)
  BY <1>2 DEF Dns!EndOf
<1> QED
  BY <1>2, <1>3 DEF Dns!Exists, Dns!Held

\* What an answer adds to what was found of an item.
DnsAdds(i, k, links, more) ==
  /\ v9' = [v9 EXCEPT ![i] = k] /\ v10' = [v10 EXCEPT ![i] = links]
  /\ v11' = [v11 EXCEPT ![i] = more] /\ v7' = [v7 EXCEPT ![i] = Tail(v7[i])]

\* What follows an answer: the next type, or the answer of the item.
DnsFollows(i, k, more) ==
  \/ Tail(v7[i]) # <<>> /\ v6' = [v6 EXCEPT ![i] = "query"] /\ v12' = v12
  \/ /\ Tail(v7[i]) = <<>> /\ v6' = [v6 EXCEPT ![i] = "over"]
     /\ \E a \in {"ok", "no_such_host", "no_address"} :
          /\ v12' = [v12 EXCEPT ![i] = a]
          /\ i \in OfDns.Names => /\ a = "ok" => k # 2 /\ more # {}
                                  /\ a = "no_such_host" => k = 2

\* The longer one of two lists of aliases is kept.
DnsLonger(i, links, l) == l = IF Len(links) > Len(v10[i]) THEN links ELSE v10[i]

\* An answer of a server is added to what was found.
LEMMA DnsLearned ==
  ASSUME Dns!Values, NEW i \in Dns!Items, NEW no \in {0, 1}, NEW links, NEW more,
         v7[i] \in {Dns!Types, Tail(Dns!Types), Dns!ReverseTypes},
         Dns!Learned(i, no, links, more),
         NEW k \in 0..2, v9[i] + no = k,
         NEW l, DnsLonger(i, links, l),
         NEW all, v11[i] \cup more = all
  PROVE  DnsAdds(i, k, l, all) /\ DnsFollows(i, k, all)
<1>1. DOMAIN v9 = Dns!Items /\ DOMAIN v11 = Dns!Items
  BY DEF Dns!Values
<1>2. DnsAdds(i, k, l, all)
  BY DEF DnsAdds, Dns!Learned, DnsLonger
<1>3. v9'[i] = k /\ v11'[i] = all
  BY <1>1, <1>2 DEF DnsAdds
<1>4. Len(v7[i]) > 1 <=> Tail(v7[i]) # <<>>
  BY DnsLongTypes, Zenon
<1>5. CASE Len(v7[i]) > 1
  <2>1. v6' = [v6 EXCEPT ![i] = "query"] /\ v12' = v12
    BY <1>5 DEF Dns!Learned
  <2>2. Tail(v7[i]) # <<>>
    BY <1>4, <1>5
  <2> QED
    BY <1>2, <2>1, <2>2 DEF DnsFollows
<1>6. CASE ~(Len(v7[i]) > 1)
  <2> DEFINE two == IF i \in OfDns.Names THEN 2 ELSE 1
             a == IF v9'[i] = two THEN "no_such_host"
                  ELSE IF v11'[i] = {} THEN IF i
                    \in OfDns.Names THEN "no_address" ELSE "no_such_host"
                  ELSE "ok"
  <2>1. Dns!Over(i, a)
    BY <1>6 DEF Dns!Learned
  <2>2. a \in {"ok", "no_such_host", "no_address"}
    OBVIOUS
  <2>3. i \in OfDns.Names => /\ a = "ok" => k # 2 /\ all # {}
                             /\ a = "no_such_host" => k = 2
    BY <1>3
  <2>4. Tail(v7[i]) = <<>>
    BY <1>4, <1>6
  <2> HIDE DEF a
  <2>5. v6' = [v6 EXCEPT ![i] = "over"] /\ v12' = [v12 EXCEPT ![i] = a]
    BY <2>1 DEF Dns!Over
  <2> QED
    BY <1>2, <2>2, <2>3, <2>4, <2>5 DEF DnsFollows
<1> QED
  BY <1>2, <1>5, <1>6

\* What is known of an item after an answer.
LEMMA DnsTold ==
  ASSUME Dns!Inv, NEW i \in Dns!Items, v6[i] = "asking", Dns!Told(i), v2' = v2
  PROVE  /\ \E k \in 0..2 : \E links, more : DnsAdds(i, k, links, more) /\ DnsFollows(i, k, more)
         /\ Tail(v7[i]) \in {Tail(Dns!Types), <<>>} /\ (i \in Dns!Addresses => Tail(v7[i]) = <<>>)
         /\ i \in OfDns.Names => Dns!NameKnows(i)'
         /\ i \in Dns!Addresses => Dns!AddressKnows(i)'
<1> USE DnsParts
<1>1. /\ DOMAIN v9 = Dns!Items /\ DOMAIN v10 = Dns!Items /\ DOMAIN v11 = Dns!Items
      /\ v7 \in [Dns!Items -> {Dns!Types, Tail(Dns!Types), Dns!ReverseTypes, <<>>}]
  BY DEF Dns!Values
<1>2. i \in OfDns.Names \/ i \in Dns!Addresses
  BY DEF Dns!Items
<1>3. v7[i] # <<>>
  BY DEF Dns!KnownInv
<1>4. ASSUME NEW k, NEW links, NEW more, DnsAdds(i, k, links, more)
      PROVE  /\ v9'[i] = k /\ v10'[i] = links /\ v11'[i] = more
             /\ v7'[i] = Tail(v7[i])
  BY <1>1, <1>4 DEF DnsAdds
<1>5. CASE i \in Dns!Addresses
  <2>1. v7[i] = Dns!ReverseTypes /\ Dns!FoundIs(i, 0, <<>>, {}) /\ i \notin OfDns.Names
    BY <1>3, <1>5, DnsTypes, DnsGiven DEF Dns!KnownInv, Dns!AddressKnows
  <2> DEFINE no == IF v2.reverse[i] = {} THEN 1 ELSE 0
             nil == <<>>
  <2>2. Dns!Learned(i, no, nil, v2.reverse[i])
    BY <2>1, DnsTypes DEF Dns!Told
  <2>3. no \in {0, 1} /\ v9[i] + no = no /\ no \in 0..2
    BY <2>1 DEF Dns!FoundIs
  <2>4. v11[i] \cup v2.reverse[i] = v2.reverse[i]
        /\ DnsLonger(i, nil, nil)
    BY <2>1 DEF Dns!FoundIs, DnsLonger
  <2> HIDE DEF no, nil
  <2>5. DnsAdds(i, no, nil, v2.reverse[i]) /\ DnsFollows(i, no, v2.reverse[i])
    BY <2>1, <2>2, <2>3, <2>4, DnsLearned
  <2>6. v9'[i] = no /\ v10'[i] = <<>> /\ v11'[i] = v2.reverse[i] /\ v7'[i] = <<>>
    BY <1>4, <2>1, <2>5, DnsTypes DEF nil
  <2>7. Dns!AddressKnows(i)'
    BY <2>6, DnsTypes DEF Dns!AddressKnows, Dns!FoundIs, no
  <2> QED
    BY <2>1, <2>3, <2>5, <2>7, DnsTypes
<1>6. CASE i \in OfDns.Names
  <2>0. i \notin Dns!Addresses
    BY <1>6, DnsGiven
  <2>1. v7[i] \in {Dns!Types, Tail(Dns!Types)} /\ Dns!NameKnows(i)
    BY <1>1, <1>3, <1>6 DEF Dns!KnownInv
  <2>2. CASE ~Dns!Exists(i)
    <3> DEFINE nil == <<>>
    <3>1. Dns!Learned(i, 1, nil, {})
      BY <2>1, <2>2, DnsTypes DEF Dns!Told
    <3>2. Dns!FoundIs(i, IF v7[i] = Dns!Types THEN 0 ELSE 1, <<>>, {})
      BY <2>1, <2>2, DnsTypes DEF Dns!NameKnows
    <3> DEFINE k == IF v7[i] = Dns!Types THEN 1 ELSE 2
    <3>3. v9[i] + 1 = k /\ k \in 0..2
      BY <3>2 DEF Dns!FoundIs
    <3>4. v11[i] \cup {} = {} /\ DnsLonger(i, nil, nil)
      BY <3>2 DEF Dns!FoundIs, DnsLonger
    <3> HIDE DEF k, nil
    <3>5. DnsAdds(i, k, nil, {}) /\ DnsFollows(i, k, {})
      BY <2>1, <3>1, <3>3, <3>4, DnsLearned
    <3>6. /\ v9'[i] = k /\ v10'[i] = <<>> /\ v11'[i] = {}
          /\ v7'[i] = Tail(v7[i])
      BY <1>4, <3>5 DEF nil
    <3>7. Dns!NameKnows(i)'
      BY <2>1, <2>2, <3>6, DnsTypes, DnsZone DEF Dns!NameKnows, Dns!FoundIs, k
    <3> QED
      BY <2>0, <2>1, <3>3, <3>5, <3>7, DnsTypes
  <2>3. CASE Dns!Exists(i)
    <3> DEFINE type == Head(v7[i])
               before == IF v7[i] = Dns!Types THEN {} ELSE Dns!Held(i, "A")
               was0 == IF v7[i] = Dns!Types THEN <<>> ELSE Dns!Links(i)
               all == before \cup Dns!Held(i, type)
    <3>1. Dns!Learned(i, 0, Dns!Links(i), Dns!Held(i, type))
      BY <2>1, <2>3, DnsTypes DEF Dns!Told
    <3>2. Dns!FoundIs(i, 0, was0, before)
      BY <2>1, <2>3, DnsTypes DEF Dns!NameKnows
    <3>3. v9[i] + 0 = 0 /\ 0 \in 0..2 /\ 0 \in {0, 1}
      BY <3>2 DEF Dns!FoundIs
    <3>4. v11[i] \cup Dns!Held(i, type) = all
      BY <3>2 DEF Dns!FoundIs
    <3>5. DnsLonger(i, Dns!Links(i), Dns!Links(i))
      BY <3>2, DnsLinks DEF Dns!FoundIs, DnsLonger
    <3>6. all = IF v7[i] = Dns!Types THEN Dns!Held(i, "A") ELSE Dns!Held(i, "A")
          \cup Dns!Held(i, "AAAA")
      BY <2>1, DnsTypes
    <3> HIDE DEF type, before, was0, all
    <3>7. DnsAdds(i, 0, Dns!Links(i), all) /\ DnsFollows(i, 0, all)
      BY <2>1, <3>1, <3>3, <3>4, <3>5, DnsLearned
    <3>8. /\ v9'[i] = 0 /\ v10'[i] = Dns!Links(i) /\ v11'[i] = all
          /\ v7'[i] = Tail(v7[i])
      BY <1>4, <3>7
    <3>9. Dns!NameKnows(i)'
      BY <2>1, <2>3, <3>6, <3>8, DnsTypes, DnsZone DEF Dns!NameKnows, Dns!FoundIs
    <3> QED
      BY <2>0, <2>1, <3>7, <3>3, <3>9, DnsTypes
  <2> QED
    BY <2>2, <2>3
<1> QED
  BY <1>2, <1>5, <1>6

\* The lookups that are under way are as many as may be.
LEMMA DnsRoom ==
  ASSUME Dns!Inv,
         \/ Dns!Asking' \subseteq Dns!Asking
         \/ Dns!Cardinality(Dns!Asking) < OfDns.Limit
            /\ \E i \in Dns!Items : Dns!Asking' = Dns!Asking \cup {i}
  PROVE  Dns!Cardinality(Dns!Asking') <= OfDns.Limit
<1>1. Dns!Asking \subseteq Dns!Items /\ Dns!Cardinality(Dns!Asking) <= OfDns.Limit
  BY DEF Dns!Asking, Dns!Inv, Dns!TypeOK
<1>2. Dns!IsFiniteSet(Dns!Asking) /\ Dns!Cardinality(Dns!Asking) \in Nat /\ OfDns.Limit \in Nat
  BY <1>1, DnsGiven, DnsFinite
<1>3. CASE Dns!Asking' \subseteq Dns!Asking
  <2>1. Dns!IsFiniteSet(Dns!Asking') /\ Dns!Cardinality(Dns!Asking') <= Dns!Cardinality(Dns!Asking)
    BY <1>2, <1>3, DnsFinite
  <2>2. Dns!Cardinality(Dns!Asking') \in Nat
    BY <2>1, DnsFinite
  <2> QED
    BY <1>1, <1>2, <2>1, <2>2
<1>4. CASE Dns!Cardinality(Dns!Asking) < OfDns.Limit
           /\ \E i \in Dns!Items : Dns!Asking' = Dns!Asking \cup {i}
  <2>1. PICK i \in Dns!Items : Dns!Asking' = Dns!Asking \cup {i}
    BY <1>4
  <2>2. Dns!IsFiniteSet(Dns!Asking') /\ Dns!Cardinality(Dns!Asking') <= Dns!Cardinality(Dns!Asking) + 1
    BY <1>2, <2>1, DnsFinite
  <2>3. Dns!Cardinality(Dns!Asking') \in Nat
    BY <2>2, DnsFinite
  <2> QED
    BY <1>2, <1>4, <2>2, <2>3
<1> QED
  BY <1>3, <1>4

\* What is known stays known as long as nothing is found.
LEMMA DnsKeepsKnown ==
  ASSUME Dns!Inv, UNCHANGED <<v2, v7, Dns!found>>,
         \A i \in Dns!Items : /\ v6[i] = "over" => v6'[i] = "over"
                              /\ i \in OfDns.Names => v6'[i] # "none"
  PROVE  Dns!KnownInv'
<1>0. Dns!KnownInv /\ UNCHANGED <<v2, v7, v9, v10, v11>>
  BY DnsParts DEF Dns!found
<1>1. ASSUME NEW n \in OfDns.Names PROVE Dns!NameKnows(n)' /\ v7'[n] # Dns!ReverseTypes
             /\ v6'[n] # "none"
  <2>1. Dns!NameKnows(n) /\ v7[n] # Dns!ReverseTypes /\ n \in Dns!Items
    BY <1>0 DEF Dns!KnownInv, Dns!Items
  <2>2. Dns!NameKnows(n)'
    BY <1>0, <2>1, DnsZone DEF Dns!NameKnows, Dns!FoundIs
  <2> QED
    BY <1>0, <2>1, <2>2
<1>2. ASSUME NEW a \in Dns!Addresses PROVE Dns!AddressKnows(a)'
             /\ v7'[a] \in {Dns!ReverseTypes, <<>>}
  BY <1>0 DEF Dns!KnownInv, Dns!AddressKnows, Dns!FoundIs
<1>3. ASSUME NEW i \in Dns!Items, v6'[i] # "over" PROVE v7'[i] # <<>>
  BY <1>0, <1>3 DEF Dns!KnownInv
<1> QED
  BY <1>1, <1>2, <1>3 DEF Dns!KnownInv

\* Answers stay as long as nothing is found, but those of what is canceled.
LEMMA DnsKeepsAnswers ==
  ASSUME Dns!Inv, UNCHANGED <<v7, Dns!found>>, v13 => v13',
         \A i \in Dns!Items :
           \/ /\ v12'[i] = v12[i] /\ v17'[i] = v17[i]
              /\ v6'[i] = "asking" => v6[i] = "asking" /\ v8'[i] = v8[i]
           \/ v12'[i] = "canceled" /\ v6'[i] = "over" /\ v13'
  PROVE  Dns!AnswerInv'
<1>0. Dns!AnswerInv /\ UNCHANGED <<v7, v9, v10, v11>>
  BY DnsParts DEF Dns!found
<1>1. ASSUME NEW n \in OfDns.Names
      PROVE  /\ v12'[n] = "ok" => v7'[n] = <<>> /\ v9'[n] # 2 /\ v11'[n] # {}
             /\ v12'[n] = "no_such_host" => v7'[n] = <<>> /\ v9'[n] = 2
  <2>1. n \in Dns!Items
    BY DEF Dns!Items
  <2>2. v12'[n] = v12[n] \/ v12'[n] = "canceled"
    BY <2>1
  <2>3. /\ v12[n] = "ok" => v7[n] = <<>> /\ v9[n] # 2 /\ v11[n] # {}
        /\ v12[n] = "no_such_host" => v7[n] = <<>> /\ v9[n] = 2
    BY <1>0 DEF Dns!AnswerInv
  <2> QED
    BY <1>0, <2>2, <2>3
<1>2. ASSUME NEW a \in Dns!Addresses, v12'[a] \in {"ok", "no_such_host"} PROVE v7'[a] = <<>>
  <2>1. a \in Dns!Items
    BY DEF Dns!Items
  <2>2. v12'[a] = v12[a]
    BY <1>2, <2>1
  <2> QED
    BY <1>0, <1>2, <2>2 DEF Dns!AnswerInv
<1>3. ASSUME NEW i \in Dns!Items
      PROVE  /\ v6'[i] = "asking" => v17'[i] \cup Dns!Left(i)' = 1..OfDns.Servers
             /\ v12'[i] = "no_answer" => v17'[i] = 1..OfDns.Servers
             /\ v12'[i] = "canceled" => v13'
  <2>1. /\ v6[i] = "asking" => v17[i] \cup Dns!Left(i) = 1..OfDns.Servers
        /\ v12[i] = "no_answer" => v17[i] = 1..OfDns.Servers
        /\ v12[i] = "canceled" => v13
    BY <1>0 DEF Dns!AnswerInv
  <2>2. CASE /\ v12'[i] = v12[i] /\ v17'[i] = v17[i]
             /\ v6'[i] = "asking" => v6[i] = "asking" /\ v8'[i] = v8[i]
    BY <2>1, <2>2 DEF Dns!Left
  <2>3. CASE v12'[i] = "canceled" /\ v6'[i] = "over" /\ v13'
    BY <2>3
  <2> QED
    BY <2>2, <2>3
<1> QED
  BY <1>1, <1>2, <1>3 DEF Dns!AnswerInv

\* What the servers cost stays as long as nothing more is asked.
LEMMA DnsKeepsCost ==
  ASSUME Dns!Inv, UNCHANGED <<v4, v16>>,
         \A s \in 1..OfDns.Servers : v15[s] \subseteq v15'[s],
         \A i \in Dns!Items : v6'[i] = "asking" => v6[i] = "asking" /\ v8'[i] = v8[i]
  PROVE  Dns!CostInv'
<1>0. Dns!CostInv /\ v4 \subseteq 1..OfDns.Servers /\ \A s \in 1..OfDns.Servers : v3[s] \in v15[s]
  BY DnsParts DEF Dns!TypeOK, Dns!Values
<1>1. \A s \in v4' : "silent" \in v15'[s]
  BY <1>0 DEF Dns!CostInv
<1>2. ASSUME NEW s \in 1..OfDns.Servers, NEW t \in 1..OfDns.Servers, v15'[s] = {"silent"},
             v15'[t] = {"up"}
      PROVE  /\ s \notin v4' => v16'[s] = 0
             /\ v16'[s] + Dns!Cardinality(Dns!Before(s)') <= OfDns.Limit
             /\ \A i \in Dns!Items : v6'[i] = "asking" => t \in v8'[i].first
  <2>1. v15[s] = {"silent"} /\ v15[t] = {"up"}
    BY <1>0, <1>2
  <2>2. /\ s \notin v4 => v16[s] = 0
        /\ v16[s] + Dns!Cardinality(Dns!Before(s)) <= OfDns.Limit
        /\ \A i \in Dns!Items : v6[i] = "asking" => t \in v8[i].first
    BY <1>0, <2>1 DEF Dns!CostInv
  <2>3. Dns!Before(s)' \subseteq Dns!Before(s) /\ Dns!Before(s) \subseteq Dns!Items
    BY DEF Dns!Before
  <2>4. Dns!IsFiniteSet(Dns!Before(s)) /\ Dns!IsFiniteSet(Dns!Before(s)')
        /\ Dns!Cardinality(Dns!Before(s)') <= Dns!Cardinality(Dns!Before(s))
    BY <2>3, DnsGiven, DnsFinite
  <2>5. Dns!Cardinality(Dns!Before(s)) \in Nat /\ Dns!Cardinality(Dns!Before(s)') \in Nat /\ v16[s] \in Nat
        /\ OfDns.Limit \in Nat
    BY <2>4, DnsFinite, DnsGiven, DnsParts DEF Dns!Values
  <2>6. v16[s] + Dns!Cardinality(Dns!Before(s)') <= OfDns.Limit
    BY <2>2, <2>4, <2>5
  <2> QED
    BY <2>2, <2>6
<1> QED
  BY <1>1, <1>2 DEF Dns!CostInv

\* The invariant holds when a command begins.
LEMMA DnsBegins == Dns!Init => Dns!Inv
<1> SUFFICES ASSUME Dns!Init PROVE Dns!Inv
  OBVIOUS
<1>1. \A i \in Dns!Items : /\ v6[i] = IF i \in OfDns.Names THEN "queued" ELSE "none"
                           /\ v7[i] = IF i \in OfDns.Names THEN Dns!Types ELSE Dns!ReverseTypes
                           /\ v8[i] = [first |-> 1..OfDns.Servers, last |-> {}]
                           /\ v9[i] = 0 /\ v10[i] = <<>> /\ v11[i] = {} /\ v12[i] = Dns!None
  BY DEF Dns!Init, Dns!orderOf
<1>2. Dns!TypeOK
  <2>1. Dns!Asking = {}
    BY <1>1 DEF Dns!Asking
  <2>2. Dns!Cardinality(Dns!Asking) <= OfDns.Limit
    BY <2>1, DnsGiven, DnsFinite
  <2>3. v6 \in [Dns!Items -> {"none", "queued", "query", "asking", "over"}]
    BY DEF Dns!Init
  <2> QED
    BY <1>1, <2>2, <2>3 DEF Dns!TypeOK, Dns!Init
<1>3. Dns!Values
  <2>1. /\ v1 \in {"lookup", "aliases"} /\ v5 \in {"hosts", "reverse", "over"}
        /\ v13 \in BOOLEAN /\ v3 \in [1..OfDns.Servers -> Dns!Conditions]
        /\ v16 \in [1..OfDns.Servers -> Nat]
        /\ DOMAIN v15 = 1..OfDns.Servers /\ \A s \in 1..OfDns.Servers : v3[s] \in v15[s]
    BY DEF Dns!Init
  <2>2. v7 \in [Dns!Items -> {Dns!Types, Tail(Dns!Types), Dns!ReverseTypes, <<>>}]
    BY DEF Dns!Init
  <2>3. v8 \in [Dns!Items -> [first : SUBSET (1..OfDns.Servers), last : SUBSET (1..OfDns.Servers)]]
    BY DEF Dns!Init, Dns!orderOf
  <2>4. v9 \in [Dns!Items -> 0..2] /\ DOMAIN v10 = Dns!Items /\ DOMAIN v11 = Dns!Items
    BY DEF Dns!Init
  <2>5. v12 \in [Dns!Items -> Dns!Answers] /\ v17 \in [Dns!Items -> SUBSET (1..OfDns.Servers)]
    BY DEF Dns!Init, Dns!Answers
  <2> QED
    BY <2>1, <2>2, <2>3, <2>4, <2>5 DEF Dns!Values
<1>4. Dns!KnownInv
  <2>1. ASSUME NEW n \in OfDns.Names PROVE Dns!NameKnows(n) /\ v7[n] # Dns!ReverseTypes
               /\ v6[n] # "none"
    <3>1. n \in Dns!Items
      BY DEF Dns!Items
    <3> QED
      BY <1>1, <3>1, DnsTypes DEF Dns!NameKnows, Dns!FoundIs
  <2>2. ASSUME NEW a \in Dns!Addresses PROVE Dns!AddressKnows(a)
               /\ v7[a] \in {Dns!ReverseTypes, <<>>}
    <3>1. a \in Dns!Items /\ a \notin OfDns.Names
      BY DnsGiven DEF Dns!Items
    <3> QED
      BY <1>1, <3>1, DnsTypes DEF Dns!AddressKnows, Dns!FoundIs
  <2>3. \A i \in Dns!Items : v7[i] # <<>>
    BY <1>1, DnsTypes
  <2> QED
    BY <2>1, <2>2, <2>3 DEF Dns!KnownInv
<1>5. Dns!AnswerInv
  BY <1>1 DEF Dns!AnswerInv, Dns!Items, Dns!None
<1>6. Dns!CostInv
  <2>1. \A s \in 1..OfDns.Servers : Dns!Before(s) = {} /\ v16[s] = 0
    BY <1>1 DEF Dns!Before, Dns!Init
  <2>2. v4 = {} /\ \A i \in Dns!Items : v6[i] # "asking"
    BY <1>1 DEF Dns!Init
  <2>3. Dns!Cardinality({}) = 0 /\ OfDns.Limit \in Nat
    BY DnsGiven, DnsFinite
  <2>4. \A s \in 1..OfDns.Servers : v16[s] + Dns!Cardinality(Dns!Before(s)) <= OfDns.Limit
    BY <2>1, <2>3
  <2> QED
    BY <2>1, <2>2, <2>4 DEF Dns!CostInv
<1> QED
  BY <1>2, <1>3, <1>4, <1>5, <1>6 DEF Dns!Inv

\* A lookup begins, or the pool starts nothing more.
LEMMA DnsStart ==
  ASSUME Dns!Inv, NEW i \in Dns!Items, Dns!Start(i)
  PROVE  Dns!Inv'
<1> USE DnsParts
<1>1. /\ v6[i] = "queued" /\ Dns!Cardinality(Dns!Asking) < OfDns.Limit
      /\ v6' = [v6 EXCEPT ![i] = "query"]
      /\ UNCHANGED <<v1, v2, v3, v4, v5, v7, v8, v9, v10, v11,
                     v12, v13, v15, v16, v17>>
  BY DEF Dns!Start, Dns!world, Dns!found
<1>2. v6 \in [Dns!Items -> {"none", "queued", "query", "asking", "over"}]
  BY DEF Dns!TypeOK
<1>3. \A j \in Dns!Items : v6'[j] = v6[j] \/ (j = i /\ v6'[j] = "query")
  BY <1>1, <1>2
<1>4. Dns!TypeOK'
  <2>1. Dns!Asking' = Dns!Asking \cup {i}
    BY <1>1, <1>2 DEF Dns!Asking
  <2>2. Dns!Cardinality(Dns!Asking') <= OfDns.Limit
    BY <1>1, <2>1, DnsRoom
  <2>3. v6' \in [Dns!Items -> {"none", "queued", "query", "asking", "over"}]
    BY <1>1, <1>2
  <2> QED
    BY <1>1, <1>3, <2>2, <2>3 DEF Dns!TypeOK, Dns!Left
<1>5. Dns!Values'
  BY <1>1 DEF Dns!Values, Dns!Answers
<1>6. Dns!KnownInv'
  BY <1>1, <1>3, DnsKeepsKnown DEF Dns!found, Dns!KnownInv, Dns!Items
<1>7. Dns!AnswerInv'
  BY <1>1, <1>3, DnsKeepsAnswers DEF Dns!found
<1>8. Dns!CostInv'
  BY <1>1, <1>3, DnsKeepsCost
<1> QED
  BY <1>4, <1>5, <1>6, <1>7, <1>8 DEF Dns!Inv

LEMMA DnsCanceled ==
  ASSUME Dns!Inv, NEW i \in Dns!Items, Dns!NotStarted(i) \/ Dns!Canceled(i)
  PROVE  Dns!Inv'
<1> USE DnsParts
<1>1. /\ v6[i] # "over" /\ v13
      /\ v6' = [v6 EXCEPT ![i] = "over"] /\ v12' = [v12 EXCEPT ![i] = "canceled"]
      /\ UNCHANGED <<v1, v2, v3, v4, v5, v7, v8, v9, v10, v11,
                     v13, v15, v16, v17>>
  BY DEF Dns!NotStarted, Dns!Canceled, Dns!Over, Dns!world, Dns!found
<1>2. v6 \in [Dns!Items -> {"none", "queued", "query", "asking", "over"}] /\ DOMAIN v12 = Dns!Items
  BY DEF Dns!TypeOK, Dns!Values
<1>3. \A j \in Dns!Items : (v6'[j] = v6[j] /\ v12'[j] = v12[j])
                           \/ (j = i /\ v6'[j] = "over" /\ v12'[j] = "canceled")
  BY <1>1, <1>2
<1>4. Dns!TypeOK'
  <2>1. Dns!Asking' \subseteq Dns!Asking
    BY <1>3 DEF Dns!Asking
  <2>2. Dns!Cardinality(Dns!Asking') <= OfDns.Limit
    BY <2>1, DnsRoom
  <2>3. v6' \in [Dns!Items -> {"none", "queued", "query", "asking", "over"}]
    BY <1>1, <1>2
  <2> QED
    BY <1>1, <1>3, <2>2, <2>3 DEF Dns!TypeOK, Dns!Left, Dns!None
<1>5. Dns!Values'
  BY <1>1 DEF Dns!Values, Dns!Answers
<1>6. Dns!KnownInv'
  BY <1>1, <1>3, DnsKeepsKnown DEF Dns!found, Dns!KnownInv
<1>7. Dns!AnswerInv'
  BY <1>1, <1>3, DnsKeepsAnswers DEF Dns!found
<1>8. Dns!CostInv'
  BY <1>1, <1>3, DnsKeepsCost
<1> QED
  BY <1>4, <1>5, <1>6, <1>7, <1>8 DEF Dns!Inv

\* The world changes, and the command is interrupted.
LEMMA DnsOutside ==
  ASSUME Dns!Inv, (\E s \in 1..OfDns.Servers : Dns!Changes(s)) \/ Dns!Interrupt
  PROVE  Dns!Inv'
<1> USE DnsParts
<1>1. UNCHANGED <<v1, v2, v4, v5, v6, v7, v8, v9, v10, v11, v12, v16, v17>>
  BY DEF Dns!Changes, Dns!Interrupt, Dns!world, Dns!found
<1>2. /\ v13' \in BOOLEAN /\ (v13 => v13')
      /\ v3' \in [1..OfDns.Servers -> Dns!Conditions] /\ DOMAIN v15' = 1..OfDns.Servers
      /\ \A s \in 1..OfDns.Servers : v3'[s] \in v15'[s] /\ v15[s] \subseteq v15'[s]
  <2>0. /\ v13 \in BOOLEAN /\ v3 \in [1..OfDns.Servers -> Dns!Conditions]
        /\ DOMAIN v15 = 1..OfDns.Servers /\ \A s \in 1..OfDns.Servers : v3[s] \in v15[s]
    BY DEF Dns!Values
  <2>1. CASE Dns!Interrupt
    BY <2>0, <2>1 DEF Dns!Interrupt, Dns!world
  <2>2. ASSUME NEW s \in 1..OfDns.Servers, Dns!Changes(s)
        PROVE  /\ v13' = v13
               /\ v3' \in [1..OfDns.Servers -> Dns!Conditions] /\ DOMAIN v15' = 1..OfDns.Servers
               /\ \A t \in 1..OfDns.Servers : v3'[t] \in v15'[t] /\ v15[t] \subseteq v15'[t]
    <3>1. PICK c \in Dns!Conditions : /\ v3' = [v3 EXCEPT ![s] = c]
                                      /\ v15' = [v15 EXCEPT ![s] = @ \cup {c}]
      BY <2>2 DEF Dns!Changes
    <3> QED
      BY <2>0, <2>2, <3>1 DEF Dns!Changes
  <2> QED
    BY <2>0, <2>1, <2>2
<1>3. Dns!TypeOK'
  <2>1. Dns!Asking' = Dns!Asking
    BY <1>1 DEF Dns!Asking
  <2> QED
    BY <1>1, <2>1 DEF Dns!TypeOK, Dns!Left
<1>4. Dns!Values'
  BY <1>1, <1>2 DEF Dns!Values, Dns!Answers
<1>5. Dns!KnownInv'
  BY <1>1, DnsKeepsKnown DEF Dns!found, Dns!KnownInv
<1>6. Dns!AnswerInv'
  BY <1>1, <1>2, DnsKeepsAnswers DEF Dns!found
<1>7. Dns!CostInv'
  BY <1>1, <1>2, DnsKeepsCost
<1> QED
  BY <1>3, <1>4, <1>5, <1>6, <1>7 DEF Dns!Inv

\* The names are looked up; of aliases, the addresses behind them follow.
LEMMA DnsPhaseOver ==
  ASSUME Dns!Inv, Dns!PhaseOver
  PROVE  Dns!Inv'
<1> USE DnsParts
<1>1. /\ UNCHANGED <<v1, v2, v3, v4, v7, v8, v9, v10, v11, v12,
                     v13, v15, v16, v17>>
      /\ v5' \in {"hosts", "reverse", "over"}
  BY DEF Dns!PhaseOver, Dns!world, Dns!found
<1>2. v6 \in [Dns!Items -> {"none", "queued", "query", "asking", "over"}]
  BY DEF Dns!TypeOK
<1>3. /\ v6' \in [Dns!Items -> {"none", "queued", "query", "asking", "over"}]
      /\ \A j \in Dns!Items : v6'[j] = v6[j] \/ (v6[j] = "none" /\ v6'[j] = "queued")
  <2>1. v6' = v6
        \/ v6' = [i \in Dns!Items |-> IF v6[i] = "none"
           /\ i \in Dns!Behind THEN "queued" ELSE v6[i]]
    BY DEF Dns!PhaseOver
  <2> QED
    BY <1>2, <2>1
<1>4. Dns!TypeOK'
  <2>1. Dns!Asking' \subseteq Dns!Asking
    BY <1>3 DEF Dns!Asking
  <2>2. Dns!Cardinality(Dns!Asking') <= OfDns.Limit
    BY <2>1, DnsRoom
  <2> QED
    BY <1>1, <1>3, <2>2 DEF Dns!TypeOK, Dns!Left
<1>5. Dns!Values'
  BY <1>1 DEF Dns!Values, Dns!Answers
<1>6. Dns!KnownInv'
  BY <1>1, <1>3, DnsKeepsKnown DEF Dns!found, Dns!KnownInv, Dns!Items
<1>7. Dns!AnswerInv'
  BY <1>1, <1>3, DnsKeepsAnswers DEF Dns!found
<1>8. Dns!CostInv'
  BY <1>1, <1>3, DnsKeepsCost
<1> QED
  BY <1>4, <1>5, <1>6, <1>7, <1>8 DEF Dns!Inv

\* A query begins to ask the servers.
LEMMA DnsQuery ==
  ASSUME Dns!Inv, NEW i \in Dns!Items, Dns!Query(i)
  PROVE  Dns!Inv'
<1> USE DnsParts
<1>1. /\ v6[i] = "query" /\ v6' = [v6 EXCEPT ![i] = "asking"]
      /\ v8' = [v8 EXCEPT ![i] = Dns!orderOf(v4)] /\ v17' = [v17 EXCEPT ![i] = {}]
      /\ UNCHANGED <<v1, v2, v3, v4, v5, v7, v9, v10, v11, v12,
                     v13, v15, v16>>
  BY DEF Dns!Query, Dns!world, Dns!found
<1>2. /\ v6 \in [Dns!Items -> {"none", "queued", "query", "asking", "over"}]
      /\ DOMAIN v8 = Dns!Items /\ DOMAIN v17 = Dns!Items
      /\ v4 \subseteq 1..OfDns.Servers /\ OfDns.Servers \in Nat \ {0}
  BY DnsGiven DEF Dns!TypeOK, Dns!Values
<1>3. /\ v6'[i] = "asking" /\ v17'[i] = {} /\ Dns!Left(i)' = 1..OfDns.Servers
      /\ v8'[i].first = (1..OfDns.Servers) \ v4
      /\ \A j \in Dns!Items \ {i} : v6'[j] = v6[j] /\ v8'[j] = v8[j] /\ v17'[j] = v17[j]
  BY <1>1, <1>2 DEF Dns!Left, Dns!orderOf
<1>4. Dns!TypeOK'
  <2>1. Dns!Asking' = Dns!Asking
    BY <1>1, <1>3 DEF Dns!Asking
  <2>2. v6' \in [Dns!Items -> {"none", "queued", "query", "asking", "over"}]
    BY <1>1, <1>2
  <2>3. Dns!Left(i)' # {}
    BY <1>2, <1>3
  <2>4. \A j \in Dns!Items \ {i} : Dns!Left(j)' = Dns!Left(j)
    BY <1>3 DEF Dns!Left
  <2>5. \A j \in Dns!Items : v12'[j] = Dns!None <=> v6'[j] # "over"
    BY <1>1, <1>3 DEF Dns!TypeOK
  <2>6. \A j \in Dns!Items : v6'[j] = "asking" => Dns!Left(j)' # {}
    BY <1>3, <2>3, <2>4 DEF Dns!TypeOK
  <2>7. Dns!Cardinality(Dns!Asking') <= OfDns.Limit
    BY <2>1 DEF Dns!TypeOK
  <2> QED
    BY <1>1, <1>2, <2>2, <2>5, <2>6, <2>7 DEF Dns!TypeOK
<1>5. Dns!Values'
  <2>1. Dns!orderOf(v4) \in [first : SUBSET (1..OfDns.Servers), last : SUBSET (1..OfDns.Servers)]
    BY <1>2 DEF Dns!orderOf
  <2>2. v8' \in [Dns!Items -> [first : SUBSET (1..OfDns.Servers), last : SUBSET (1..OfDns.Servers)]]
    BY <1>1, <2>1 DEF Dns!Values
  <2>3. v17' \in [Dns!Items -> SUBSET (1..OfDns.Servers)]
    BY <1>1 DEF Dns!Values
  <2> QED
    BY <1>1, <2>2, <2>3 DEF Dns!Values, Dns!Answers
<1>6. Dns!KnownInv'
  BY <1>1, <1>3, DnsKeepsKnown DEF Dns!found, Dns!KnownInv, Dns!Items
<1>7. Dns!AnswerInv'
  <2>1. v12[i] = Dns!None
    BY <1>1 DEF Dns!TypeOK
  <2>2. ASSUME NEW j \in Dns!Items
        PROVE  /\ v6'[j] = "asking" => v17'[j] \cup Dns!Left(j)' = 1..OfDns.Servers
               /\ v12'[j] = "no_answer" => v17'[j] = 1..OfDns.Servers
               /\ v12'[j] = "canceled" => v13'
    <3>1. CASE j = i
      BY <1>1, <1>3, <2>1, <3>1 DEF Dns!None
    <3>2. CASE j # i
      <4>1. Dns!Left(j)' = Dns!Left(j)
        BY <1>3, <3>2 DEF Dns!Left
      <4> QED
        BY <1>1, <1>3, <3>2, <4>1 DEF Dns!AnswerInv
    <3> QED
      BY <3>1, <3>2
  <2>3. ASSUME NEW n \in OfDns.Names
        PROVE  /\ v12'[n] = "ok" => v7'[n] = <<>> /\ v9'[n] # 2 /\ v11'[n] # {}
               /\ v12'[n] = "no_such_host" => v7'[n] = <<>> /\ v9'[n] = 2
    BY <1>1 DEF Dns!AnswerInv
  <2>4. \A a \in Dns!Addresses : v12'[a] \in {"ok", "no_such_host"} => v7'[a] = <<>>
    BY <1>1 DEF Dns!AnswerInv
  <2> QED
    BY <2>2, <2>3, <2>4 DEF Dns!AnswerInv
<1>8. Dns!CostInv'
  <2>1. \A s \in v4' : "silent" \in v15'[s]
    BY <1>1 DEF Dns!CostInv
  <2>2. ASSUME NEW s \in 1..OfDns.Servers, NEW t \in 1..OfDns.Servers, v15'[s] = {"silent"},
               v15'[t] = {"up"}
        PROVE  /\ s \notin v4' => v16'[s] = 0
               /\ v16'[s] + Dns!Cardinality(Dns!Before(s)') <= OfDns.Limit
               /\ \A j \in Dns!Items : v6'[j] = "asking" => t \in v8'[j].first
    <3>1. /\ s \notin v4 => v16[s] = 0
          /\ v16[s] + Dns!Cardinality(Dns!Before(s)) <= OfDns.Limit
          /\ \A j \in Dns!Items : v6[j] = "asking" => t \in v8[j].first
      BY <1>1, <2>2 DEF Dns!CostInv
    <3>2. t \notin v4
      BY <1>1, <2>2 DEF Dns!CostInv
    <3>3. \A j \in Dns!Items : v6'[j] = "asking" => t \in v8'[j].first
      BY <1>3, <3>1, <3>2
    <3>4. CASE s \in v4
      <4>1. Dns!Before(s)' = Dns!Before(s)
        BY <1>1, <1>3, <3>4 DEF Dns!Before
      <4> QED
        BY <1>1, <3>1, <3>3, <3>4, <4>1
    <3>5. CASE s \notin v4
      <4>1. Dns!Before(s)' \subseteq Dns!Asking /\ Dns!Asking \subseteq Dns!Items
        BY <1>1, <1>3 DEF Dns!Before, Dns!Asking
      <4>2. Dns!IsFiniteSet(Dns!Asking) /\ Dns!IsFiniteSet(Dns!Before(s)')
            /\ Dns!Cardinality(Dns!Before(s)') <= Dns!Cardinality(Dns!Asking)
        BY <4>1, DnsGiven, DnsFinite
      <4>3. Dns!Cardinality(Dns!Asking) \in Nat /\ Dns!Cardinality(Dns!Before(s)') \in Nat
            /\ OfDns.Limit \in Nat
            /\ Dns!Cardinality(Dns!Asking) <= OfDns.Limit
        BY <4>2, DnsFinite, DnsGiven DEF Dns!TypeOK
      <4>4. v16'[s] = 0
        BY <1>1, <3>1, <3>5
      <4> QED
        BY <1>1, <3>3, <3>5, <4>2, <4>3, <4>4
    <3> QED
      BY <3>4, <3>5
  <2> QED
    BY <2>1, <2>2 DEF Dns!CostInv
<1> QED
  BY <1>4, <1>5, <1>6, <1>7, <1>8 DEF Dns!Inv

\* What the servers cost when a query is done with one: nothing when it said
\* something, one timeout when it did not.
LEMMA DnsCostOfOne ==
  ASSUME Dns!Inv, NEW i \in Dns!Items, v6[i] = "asking", NEW r, r = Dns!Asked(i), UNCHANGED v15,
         \/ /\ v3[r] # "silent" /\ v4' \subseteq v4 /\ v4 \ {r} \subseteq v4'
            /\ v16' = v16
         \/ /\ v3[r] = "silent" /\ v4' = v4 \cup {r}
            /\ v16' = [v16 EXCEPT ![r] = @ + 1]
            /\ v6'[i] = "asking" => v8'[i].first = v8[i].first \ {r},
         v6'[i] = "asking" => \/ v8'[i].first = v8[i].first
                              \/ v8'[i].first = v8[i].first \ {r} /\ v3[r] # "up",
         \A j \in Dns!Items \ {i} : v6'[j] = "asking" => v6[j] = "asking" /\ v8'[j] = v8[j]
  PROVE  Dns!CostInv'
<1> USE DnsParts
<1>1. /\ v16 \in [1..OfDns.Servers -> Nat] /\ v4 \subseteq 1..OfDns.Servers
      /\ \A s \in 1..OfDns.Servers : v3[s] \in v15[s]
      /\ Dns!Left(i) # {}
  BY DEF Dns!TypeOK, Dns!Values
<1>2. /\ r \in 1..OfDns.Servers /\ (v8[i].first # {} => r \in v8[i].first)
  BY <1>1, DnsAsked
<1>3. ASSUME NEW s \in v4' PROVE "silent" \in v15'[s]
  <2>1. s \in v4 \/ (s = r /\ v3[r] = "silent")
    BY <1>3
  <2> QED
    BY <1>1, <1>2, <2>1 DEF Dns!CostInv
<1>4. ASSUME NEW s \in 1..OfDns.Servers, NEW t \in 1..OfDns.Servers, v15'[s] = {"silent"},
             v15'[t] = {"up"}
      PROVE  /\ s \notin v4' => v16'[s] = 0
             /\ v16'[s] + Dns!Cardinality(Dns!Before(s)') <= OfDns.Limit
             /\ \A j \in Dns!Items : v6'[j] = "asking" => t \in v8'[j].first
  <2>1. /\ s \notin v4 => v16[s] = 0
        /\ v16[s] + Dns!Cardinality(Dns!Before(s)) <= OfDns.Limit
        /\ \A j \in Dns!Items : v6[j] = "asking" => t \in v8[j].first
    BY <1>4 DEF Dns!CostInv
  <2>2. v3[s] = "silent" /\ v3[t] = "up"
    BY <1>1, <1>4
  <2>3. r \in v8[i].first
    BY <1>2, <2>1
  <2>4. \A j \in Dns!Items : v6'[j] = "asking" => t \in v8'[j].first
    BY <2>1, <2>2
  <2>5. Dns!Before(s)' \subseteq Dns!Before(s) /\ Dns!Before(s) \subseteq Dns!Items
    BY DEF Dns!Before
  <2>6. /\ Dns!IsFiniteSet(Dns!Before(s)) /\ Dns!IsFiniteSet(Dns!Before(s)')
        /\ Dns!Cardinality(Dns!Before(s)') <= Dns!Cardinality(Dns!Before(s))
    BY <2>5, DnsGiven, DnsFinite
  <2>7. /\ Dns!Cardinality(Dns!Before(s)) \in Nat /\ Dns!Cardinality(Dns!Before(s)') \in Nat
        /\ OfDns.Limit \in Nat
        /\ v16[s] \in Nat
    BY <1>1, <2>6, DnsFinite, DnsGiven
  <2>8. CASE r # s
    <3>1. v16'[s] = v16[s] /\ (s \in v4 <=> s \in v4')
      BY <1>1, <2>8
    <3>2. v16'[s] + Dns!Cardinality(Dns!Before(s)') <= OfDns.Limit
      BY <2>1, <2>6, <2>7, <3>1
    <3> QED
      BY <2>1, <2>4, <3>1, <3>2
  <2>9. CASE r = s
    <3>1. /\ v4' = v4 \cup {s} /\ v16'[s] = v16[s] + 1
          /\ v6'[i] = "asking" => v8'[i].first = v8[i].first \ {s}
      BY <1>1, <2>2, <2>9
    <3>2. i \in Dns!Before(s) /\ i \notin Dns!Before(s)'
      BY <2>3, <2>9, <3>1 DEF Dns!Before
    <3>3. Dns!Before(s)' \subseteq Dns!Before(s) \ {i}
      BY <2>5, <3>2
    <3>4. Dns!IsFiniteSet(Dns!Before(s) \ {i})
      BY <2>6, DnsFinite
    <3>5. Dns!Cardinality(Dns!Before(s) \ {i}) = Dns!Cardinality(Dns!Before(s)) - 1
      BY <2>6, <3>2, DnsFinite
    <3>6. Dns!Cardinality(Dns!Before(s)') <= Dns!Cardinality(Dns!Before(s) \ {i})
      BY <3>3, <3>4, DnsFinite
    <3>7. v16'[s] + Dns!Cardinality(Dns!Before(s)') <= OfDns.Limit
      BY <2>1, <2>7, <3>1, <3>5, <3>6
    <3> QED
      BY <2>4, <3>1, <3>7
  <2> QED
    BY <2>8, <2>9
<1> QED
  BY <1>3, <1>4 DEF Dns!CostInv

\* A server answered: what was learned is added, the server is silent no more.
LEMMA DnsAnswered ==
  ASSUME Dns!Inv, NEW i \in Dns!Items, v6[i] = "asking", v3[Dns!Asked(i)] # "silent",
         Dns!Clear(Dns!Asked(i)), Dns!Told(i),
         UNCHANGED <<Dns!world, v5, v8, v16, v17, v13>>
  PROVE  Dns!Inv'
<1> USE DnsParts
<1> DEFINE r == Dns!Asked(i)
<1>1. /\ v4' = v4 \ {r}
      /\ UNCHANGED <<v1, v2, v3, v5, v8, v13, v15, v16, v17>>
  BY DEF Dns!Clear, Dns!world
<1>2. /\ v6 \in [Dns!Items -> {"none", "queued", "query", "asking", "over"}]
      /\ DOMAIN v12 = Dns!Items /\ DOMAIN v9 = Dns!Items /\ DOMAIN v10 = Dns!Items
      /\ DOMAIN v11 = Dns!Items /\ DOMAIN v7 = Dns!Items
      /\ v4 \subseteq 1..OfDns.Servers
  BY DEF Dns!TypeOK, Dns!Values
<1>3. PICK k, links, more : k \in 0..2 /\ DnsAdds(i, k, links, more) /\ DnsFollows(i, k, more)
  BY <1>1, DnsTold
<1>4. /\ Tail(v7[i]) \in {Tail(Dns!Types), <<>>} /\ (i \in Dns!Addresses => Tail(v7[i]) = <<>>)
      /\ (i \in OfDns.Names => Dns!NameKnows(i)') /\ (i \in Dns!Addresses => Dns!AddressKnows(i)')
  BY <1>1, DnsTold
<1>5. /\ v7'[i] = Tail(v7[i]) /\ v9'[i] = k /\ v11'[i] = more
      /\ \A j \in Dns!Items \ {i} : /\ v7'[j] = v7[j] /\ v9'[j] = v9[j]
                                    /\ v10'[j] = v10[j] /\ v11'[j] = v11[j]
  BY <1>2, <1>3 DEF DnsAdds
<1>6. /\ v6'[i] \in {"query", "over"} /\ (v6'[i] = "over" <=> v7'[i] = <<>>)
      /\ v6'[i] = "query" => v12'[i] = v12[i]
      /\ v6'[i] = "over" => v12'[i] \in {"ok", "no_such_host", "no_address"}
      /\ i \in OfDns.Names /\ v6'[i] = "over" =>
           /\ v12'[i] = "ok" => k # 2 /\ more # {}
           /\ v12'[i] = "no_such_host" => k = 2
      /\ \A j \in Dns!Items \ {i} : v6'[j] = v6[j] /\ v12'[j] = v12[j]
  BY <1>2, <1>3, <1>5 DEF DnsFollows
<1>7. v12[i] = Dns!None
  BY DEF Dns!TypeOK
<1> HIDE DEF r
<1>8. Dns!TypeOK'
  <2>1. Dns!Asking' \subseteq Dns!Asking
    BY <1>6 DEF Dns!Asking
  <2>2. Dns!Cardinality(Dns!Asking') <= OfDns.Limit
    BY <2>1, DnsRoom
  <2>3. v6' \in [Dns!Items -> {"none", "queued", "query", "asking", "over"}]
    BY <1>2, <1>3 DEF DnsFollows
  <2>4. \A j \in Dns!Items : v12'[j] = Dns!None <=> v6'[j] # "over"
    BY <1>6, <1>7 DEF Dns!TypeOK, Dns!None
  <2>5. \A j \in Dns!Items : v6'[j] = "asking" => Dns!Left(j)' # {}
    BY <1>1, <1>6 DEF Dns!TypeOK, Dns!Left
  <2> QED
    BY <1>1, <1>2, <2>2, <2>3, <2>4, <2>5 DEF Dns!TypeOK
<1>9. Dns!Values'
  <2>1. v7' \in [Dns!Items -> {Dns!Types, Tail(Dns!Types), Dns!ReverseTypes, <<>>}]
    BY <1>3, <1>4 DEF DnsAdds, Dns!Values
  <2>2. v9' \in [Dns!Items -> 0..2]
    BY <1>3 DEF DnsAdds, Dns!Values
  <2>3. DOMAIN v10' = Dns!Items /\ DOMAIN v11' = Dns!Items
    BY <1>2, <1>3 DEF DnsAdds
  <2>4. v12' \in [Dns!Items -> Dns!Answers]
    BY <1>3 DEF DnsFollows, Dns!Values, Dns!Answers
  <2> QED
    BY <1>1, <2>1, <2>2, <2>3, <2>4 DEF Dns!Values
<1>10. Dns!KnownInv'
  <2>1. ASSUME NEW n \in OfDns.Names PROVE Dns!NameKnows(n)' /\ v7'[n] # Dns!ReverseTypes
               /\ v6'[n] # "none"
    <3>1. CASE n = i
      BY <1>4, <1>5, <1>6, <3>1, DnsTypes
    <3>2. CASE n # i
      <4>1. n \in Dns!Items \ {i}
        BY <3>2 DEF Dns!Items
      <4>2. Dns!NameKnows(n) /\ v7[n] # Dns!ReverseTypes /\ v6[n] # "none"
        BY DEF Dns!KnownInv
      <4>3. Dns!NameKnows(n)'
        BY <1>1, <1>5, <4>1, <4>2, DnsZone DEF Dns!NameKnows, Dns!FoundIs
      <4> QED
        BY <1>5, <1>6, <4>1, <4>2, <4>3
    <3> QED
      BY <3>1, <3>2
  <2>2. ASSUME NEW a \in Dns!Addresses PROVE Dns!AddressKnows(a)'
               /\ v7'[a] \in {Dns!ReverseTypes, <<>>}
    <3>1. CASE a = i
      BY <1>4, <1>5, <3>1
    <3>2. CASE a # i
      <4>1. a \in Dns!Items \ {i}
        BY <3>2 DEF Dns!Items
      <4>2. Dns!AddressKnows(a) /\ v7[a] \in {Dns!ReverseTypes, <<>>}
        BY DEF Dns!KnownInv
      <4> QED
        BY <1>1, <1>5, <4>1, <4>2 DEF Dns!AddressKnows, Dns!FoundIs
    <3> QED
      BY <3>1, <3>2
  <2>3. \A j \in Dns!Items : v6'[j] # "over" => v7'[j] # <<>>
    BY <1>5, <1>6 DEF Dns!KnownInv
  <2> QED
    BY <2>1, <2>2, <2>3 DEF Dns!KnownInv
<1>11. Dns!AnswerInv'
  <2>1. ASSUME NEW n \in OfDns.Names
        PROVE  /\ v12'[n] = "ok" => v7'[n] = <<>> /\ v9'[n] # 2 /\ v11'[n] # {}
               /\ v12'[n] = "no_such_host" => v7'[n] = <<>> /\ v9'[n] = 2
    <3>1. CASE n = i
      BY <1>5, <1>6, <1>7, <3>1 DEF Dns!None
    <3>2. CASE n # i
      <4>1. n \in Dns!Items \ {i}
        BY <3>2 DEF Dns!Items
      <4> QED
        BY <1>5, <1>6, <4>1 DEF Dns!AnswerInv
    <3> QED
      BY <3>1, <3>2
  <2>2. ASSUME NEW a \in Dns!Addresses, v12'[a] \in {"ok", "no_such_host"} PROVE v7'[a] = <<>>
    <3>1. CASE a = i
      BY <1>4, <1>5, <3>1
    <3>2. CASE a # i
      <4>1. a \in Dns!Items \ {i}
        BY <3>2 DEF Dns!Items
      <4> QED
        BY <1>5, <1>6, <2>2, <4>1 DEF Dns!AnswerInv
    <3> QED
      BY <3>1, <3>2
  <2>3. ASSUME NEW j \in Dns!Items
        PROVE  /\ v6'[j] = "asking" => v17'[j] \cup Dns!Left(j)' = 1..OfDns.Servers
               /\ v12'[j] = "no_answer" => v17'[j] = 1..OfDns.Servers
               /\ v12'[j] = "canceled" => v13'
    <3>1. CASE j = i
      BY <1>6, <1>7, <3>1 DEF Dns!None
    <3>2. CASE j # i
      <4>1. Dns!Left(j)' = Dns!Left(j)
        BY <1>1 DEF Dns!Left
      <4> QED
        BY <1>1, <1>6, <3>2, <4>1 DEF Dns!AnswerInv
    <3> QED
      BY <3>1, <3>2
  <2> QED
    BY <2>1, <2>2, <2>3 DEF Dns!AnswerInv
<1>12. Dns!CostInv'
  BY <1>1, <1>6, DnsCostOfOne, DnsAsked DEF r, Dns!TypeOK
<1> QED
  BY <1>8, <1>9, <1>10, <1>11, <1>12 DEF Dns!Inv

\* A server gave no answer: the next one is asked, or there is none.
LEMMA DnsNextServer ==
  ASSUME Dns!Inv, NEW i \in Dns!Items, v6[i] = "asking", Dns!NextServer(i, "no_answer"),
         NEW r, r = Dns!Asked(i), v3[r] # "up",
         \/ /\ v3[r] # "silent" /\ v4' \in {v4, v4 \ {r}} /\ v16' = v16
         \/ /\ v3[r] = "silent" /\ v4' = v4 \cup {r}
            /\ v16' = [v16 EXCEPT ![r] = @ + 1],
         UNCHANGED <<Dns!world, v5, v13>>
  PROVE  Dns!Inv'
<1> USE DnsParts
<1>1. UNCHANGED <<v1, v2, v3, v5, v7, v9, v10, v11, v13, v15>>
  BY DEF Dns!NextServer, Dns!world, Dns!found
<1>2. /\ v6 \in [Dns!Items -> {"none", "queued", "query", "asking", "over"}]
      /\ v12 \in [Dns!Items -> Dns!Answers] /\ v17 \in [Dns!Items -> SUBSET (1..OfDns.Servers)]
      /\ v8 \in [Dns!Items -> [first : SUBSET (1..OfDns.Servers), last : SUBSET (1..OfDns.Servers)]]
      /\ v16 \in [1..OfDns.Servers -> Nat] /\ v4 \subseteq 1..OfDns.Servers
  BY DEF Dns!TypeOK, Dns!Values
<1>3. r \in 1..OfDns.Servers /\ r \in Dns!Left(i)
  BY DnsAsked DEF Dns!TypeOK
<1>4. v17[i] \cup Dns!Left(i) = 1..OfDns.Servers /\ v12[i] = Dns!None
  BY DEF Dns!AnswerInv, Dns!TypeOK
<1>5. /\ v17' = [v17 EXCEPT ![i] = @ \cup {r}]
      /\ v8' = [v8 EXCEPT ![i] = [first |-> v8[i].first \ {r}, last |-> v8[i].last \ {r}]]
  BY DEF Dns!NextServer
<1>6. /\ v17'[i] = v17[i] \cup {r} /\ Dns!Left(i)' = Dns!Left(i) \ {r}
      /\ v8'[i].first = v8[i].first \ {r}
      /\ \A j \in Dns!Items \ {i} : v17'[j] = v17[j] /\ v8'[j] = v8[j] /\ Dns!Left(j)' = Dns!Left(j)
  BY <1>2, <1>5 DEF Dns!Left
<1>7. \/ Dns!Left(i) = {r} /\ v6' = [v6 EXCEPT ![i] = "over"]
         /\ v12' = [v12 EXCEPT ![i] = "no_answer"]
      \/ Dns!Left(i) # {r} /\ v6' = v6 /\ v12' = v12
  BY DEF Dns!NextServer, Dns!Over
<1>8. /\ \/ Dns!Left(i) = {r} /\ v6'[i] = "over" /\ v12'[i] = "no_answer"
         \/ Dns!Left(i) # {r} /\ v6'[i] = "asking" /\ v12'[i] = Dns!None
      /\ \A j \in Dns!Items \ {i} : v6'[j] = v6[j] /\ v12'[j] = v12[j]
  BY <1>2, <1>4, <1>7
<1>9. Dns!TypeOK'
  <2>1. Dns!Asking' \subseteq Dns!Asking
    BY <1>8 DEF Dns!Asking
  <2>2. Dns!Cardinality(Dns!Asking') <= OfDns.Limit
    BY <2>1, DnsRoom
  <2>3. v6' \in [Dns!Items -> {"none", "queued", "query", "asking", "over"}]
    BY <1>2, <1>7
  <2>4. \A j \in Dns!Items : v12'[j] = Dns!None <=> v6'[j] # "over"
    BY <1>8 DEF Dns!TypeOK, Dns!None
  <2>5. \A j \in Dns!Items : v6'[j] = "asking" => Dns!Left(j)' # {}
    BY <1>3, <1>6, <1>8 DEF Dns!TypeOK
  <2>6. v4' \subseteq 1..OfDns.Servers
    BY <1>2, <1>3
  <2> QED
    BY <2>2, <2>3, <2>4, <2>5, <2>6 DEF Dns!TypeOK
<1>10. Dns!Values'
  <2>1. v8' \in [Dns!Items -> [first : SUBSET (1..OfDns.Servers), last : SUBSET (1..OfDns.Servers)]]
    BY <1>2, <1>5
  <2>2. v17' \in [Dns!Items -> SUBSET (1..OfDns.Servers)]
    BY <1>2, <1>3, <1>5
  <2>3. v12' \in [Dns!Items -> Dns!Answers]
    BY <1>2, <1>7 DEF Dns!Answers
  <2>4. v16' \in [1..OfDns.Servers -> Nat]
    BY <1>2
  <2> QED
    BY <1>1, <2>1, <2>2, <2>3, <2>4 DEF Dns!Values
<1>11. Dns!KnownInv'
  BY <1>1, <1>8, DnsKeepsKnown DEF Dns!found, Dns!KnownInv, Dns!Items
<1>12. Dns!AnswerInv'
  <2>1. ASSUME NEW n \in OfDns.Names
        PROVE  /\ v12'[n] = "ok" => v7'[n] = <<>> /\ v9'[n] # 2 /\ v11'[n] # {}
               /\ v12'[n] = "no_such_host" => v7'[n] = <<>> /\ v9'[n] = 2
    <3>1. n \in Dns!Items
      BY DEF Dns!Items
    <3>2. v12'[n] = v12[n] \/ v12'[n] \in {Dns!None, "no_answer"}
      BY <1>8, <3>1
    <3> QED
      BY <1>1, <3>2 DEF Dns!AnswerInv, Dns!None
  <2>2. ASSUME NEW a \in Dns!Addresses, v12'[a] \in {"ok", "no_such_host"} PROVE v7'[a] = <<>>
    <3>1. a \in Dns!Items
      BY DEF Dns!Items
    <3>2. v12'[a] = v12[a] \/ v12'[a] \in {Dns!None, "no_answer"}
      BY <1>8, <3>1
    <3> QED
      BY <1>1, <2>2, <3>2 DEF Dns!AnswerInv, Dns!None
  <2>3. ASSUME NEW j \in Dns!Items
        PROVE  /\ v6'[j] = "asking" => v17'[j] \cup Dns!Left(j)' = 1..OfDns.Servers
               /\ v12'[j] = "no_answer" => v17'[j] = 1..OfDns.Servers
               /\ v12'[j] = "canceled" => v13'
    <3>1. CASE j = i
      <4>1. v17'[i] \cup Dns!Left(i)' = 1..OfDns.Servers
        BY <1>3, <1>4, <1>6
      <4>2. Dns!Left(i) = {r} => v17'[i] = 1..OfDns.Servers
        BY <1>4, <1>6
      <4> QED
        BY <1>8, <3>1, <4>1, <4>2 DEF Dns!None
    <3>2. CASE j # i
      BY <1>1, <1>6, <1>8, <3>2 DEF Dns!AnswerInv
    <3> QED
      BY <3>1, <3>2
  <2> QED
    BY <2>1, <2>2, <2>3 DEF Dns!AnswerInv
<1>13. Dns!CostInv'
  <2>1. \/ /\ v3[r] # "silent" /\ v4' \subseteq v4 /\ v4 \ {r} \subseteq v4'
           /\ v16' = v16
        \/ /\ v3[r] = "silent" /\ v4' = v4 \cup {r}
           /\ v16' = [v16 EXCEPT ![r] = @ + 1]
    OBVIOUS
  <2>2. \A j \in Dns!Items \ {i} : v6'[j] = "asking" => v6[j] = "asking" /\ v8'[j] = v8[j]
    BY <1>6, <1>8
  <2> QED
    BY <1>1, <1>6, <2>1, <2>2, DnsCostOfOne
<1> QED
  BY <1>9, <1>10, <1>11, <1>12, <1>13 DEF Dns!Inv

\* What an exchange with one server can do.
LEMMA DnsExchange ==
  ASSUME Dns!Inv, NEW i \in Dns!Items, Dns!Exchange(i)
  PROVE  Dns!Inv'
<1> DEFINE r == Dns!Asked(i)
<1>1. /\ v6[i] = "asking" /\ UNCHANGED <<Dns!world, v5, v13>>
      /\ \/ /\ v3[r] \in {"up", "no_tcp"}
            /\ Dns!Clear(r) /\ Dns!Told(i) /\ UNCHANGED <<v8, v16, v17>>
         \/ /\ v3[r] \in {"no_tcp", "failing"} /\ Dns!Clear(r)
            /\ Dns!NextServer(i, "no_answer") /\ UNCHANGED v16
         \/ v3[r] = "closed" /\ UNCHANGED <<v4, v16>> /\ Dns!NextServer(i, "no_answer")
         \/ /\ v3[r] = "silent" /\ Dns!Mark(r) /\ Dns!NextServer(i, "no_answer")
            /\ v16' = [v16 EXCEPT ![r] = @ + 1]
  BY DEF Dns!Exchange
<1>2. CASE v3[r] \in {"up", "no_tcp"} /\ Dns!Clear(r) /\ Dns!Told(i) /\ UNCHANGED <<v8, v16, v17>>
  BY <1>1, <1>2, DnsAnswered
<1>3. CASE v3[r] \in {"no_tcp", "failing"} /\ Dns!Clear(r) /\ Dns!NextServer(i, "no_answer")
           /\ UNCHANGED v16
  <2>1. v3[r] # "silent" /\ v3[r] # "up" /\ v4' \in {v4, v4 \ {r}}
    BY <1>3 DEF Dns!Clear
  <2> HIDE DEF r
  <2>2. r = Dns!Asked(i)
    BY DEF r
  <2> QED
    BY <1>1, <1>3, <2>1, <2>2, DnsNextServer
<1>4. CASE v3[r] = "closed" /\ UNCHANGED <<v4, v16>> /\ Dns!NextServer(i, "no_answer")
  <2>1. v3[r] # "silent" /\ v3[r] # "up" /\ v4' \in {v4, v4 \ {r}}
    BY <1>4
  <2> HIDE DEF r
  <2>2. r = Dns!Asked(i)
    BY DEF r
  <2> QED
    BY <1>1, <1>4, <2>1, <2>2, DnsNextServer
<1>5. CASE /\ v3[r] = "silent" /\ Dns!Mark(r) /\ Dns!NextServer(i, "no_answer")
           /\ v16' = [v16 EXCEPT ![r] = @ + 1]
  <2>1. v3[r] # "up" /\ v4' = v4 \cup {r}
    BY <1>5 DEF Dns!Mark
  <2> HIDE DEF r
  <2>2. r = Dns!Asked(i)
    BY DEF r
  <2> QED
    BY <1>1, <1>5, <2>1, <2>2, DnsNextServer
<1> QED
  BY <1>1, <1>2, <1>3, <1>4, <1>5

\* Every step keeps the invariant.
LEMMA DnsStep == Dns!Inv /\ [Dns!Next]_(Dns!vars) => Dns!Inv'
<1> SUFFICES ASSUME Dns!Inv, [Dns!Next]_(Dns!vars) PROVE Dns!Inv'
  OBVIOUS
<1>1. ASSUME NEW i \in Dns!Items,
             Dns!Start(i) \/ Dns!NotStarted(i) \/ Dns!Query(i) \/ Dns!Exchange(i) \/ Dns!Canceled(i)
      PROVE  Dns!Inv'
  BY <1>1, DnsStart, DnsCanceled, DnsQuery, DnsExchange
<1>2. CASE (\E s \in 1..OfDns.Servers : Dns!Changes(s)) \/ Dns!Interrupt
  BY <1>2, DnsOutside
<1>3. CASE Dns!PhaseOver
  BY <1>3, DnsPhaseOver
<1>4. CASE UNCHANGED Dns!vars
  <2>1. /\ UNCHANGED <<v1, v2, v3, v4, v5, v6, v7, v8, v9, v10, v11,
                       v12, v13, v15, v16, v17>>
    BY <1>4 DEF Dns!vars
  <2>2. Dns!TypeOK'
    BY <2>1, DnsParts DEF Dns!TypeOK, Dns!Asking, Dns!Left
  <2>3. Dns!Values'
    BY <2>1, DnsParts DEF Dns!Values, Dns!Answers
  <2>4. Dns!KnownInv'
    BY <2>1, DnsParts, DnsKeepsKnown DEF Dns!found, Dns!KnownInv, Dns!Items
  <2>5. Dns!AnswerInv'
    BY <2>1, DnsKeepsAnswers DEF Dns!found
  <2>6. Dns!CostInv'
    BY <2>1, DnsKeepsCost
  <2> QED
    BY <2>2, <2>3, <2>4, <2>5, <2>6 DEF Dns!Inv
<1> QED
  BY <1>1, <1>2, <1>3, <1>4 DEF Dns!Next

\* What is reported is what the zone holds, and silence costs once.
LEMMA DnsKeeps == Dns!Inv => Dns!AnswersAreTrue /\ Dns!SilenceCostsOnce
<1> SUFFICES ASSUME Dns!Inv PROVE Dns!AnswersAreTrue /\ Dns!SilenceCostsOnce
  OBVIOUS
<1> USE DnsParts
<1>1. ASSUME NEW n \in OfDns.Names
      PROVE  /\ v12[n] = "ok" => /\ v11[n] = v2.a[Dns!EndOf(n)] \cup v2.aaaa[Dns!EndOf(n)]
                                 /\ v11[n] # {} /\ v10[n] = Dns!Links(n)
             /\ v12[n] = "no_such_host" => ~Dns!Exists(n)
  <2>1. Dns!NameKnows(n)
    BY DEF Dns!KnownInv
  <2>2. /\ v12[n] = "ok" => v7[n] = <<>> /\ v9[n] # 2 /\ v11[n] # {}
        /\ v12[n] = "no_such_host" => v7[n] = <<>> /\ v9[n] = 2
    BY DEF Dns!AnswerInv
  <2>3. Dns!Held(n, "A") = v2.a[Dns!EndOf(n)] /\ Dns!Held(n, "AAAA") = v2.aaaa[Dns!EndOf(n)]
    BY DEF Dns!Held
  <2> QED
    BY <2>1, <2>2, <2>3 DEF Dns!NameKnows, Dns!FoundIs
<1>2. ASSUME NEW a \in Dns!Addresses, v12[a] \in {"ok", "no_such_host"}
      PROVE  v11[a] = v2.reverse[a]
  BY <1>2 DEF Dns!KnownInv, Dns!AddressKnows, Dns!FoundIs, Dns!AnswerInv
<1>3. \A i \in Dns!Items : /\ v12[i] = "no_answer" => v17[i] = 1..OfDns.Servers
                           /\ v12[i] = "canceled" => v13
  BY DEF Dns!AnswerInv
<1>4. ASSUME v5 = "over", Dns!exit = 0, NEW n \in OfDns.Names
      PROVE  /\ v12[n] = "ok"
             /\ v1 # "aliases" \/ \A a \in v11[n] : v12[a] \in {"ok", "no_such_host"}
  <2>1. Dns!Failed = {} /\ Dns!Unread = {}
    BY <1>4 DEF Dns!exit
  <2>2. v12[n] = "ok"
    BY <2>1 DEF Dns!Failed
  <2>3. ASSUME v1 = "aliases", NEW a \in v11[n]
        PROVE  v12[a] \in {"ok", "no_such_host"}
    <3>1. a \in Dns!Behind
      BY <2>2 DEF Dns!Behind
    <3> QED
      BY <2>1, <2>3, <3>1 DEF Dns!Unread
  <2> QED
    BY <2>2, <2>3
<1>5. Dns!AnswersAreTrue
  BY <1>1, <1>2, <1>3, <1>4 DEF Dns!AnswersAreTrue
<1>6. ASSUME NEW s \in 1..OfDns.Servers, v15[s] = {"silent"}, NEW t \in 1..OfDns.Servers,
             v15[t] = {"up"}
      PROVE  v16[s] <= OfDns.Limit
  <2>1. v16[s] + Dns!Cardinality(Dns!Before(s)) <= OfDns.Limit /\ v16[s] \in Nat /\ OfDns.Limit \in Nat
    BY <1>6, DnsGiven DEF Dns!CostInv, Dns!Values
  <2>2. Dns!Before(s) \subseteq Dns!Items
    BY DEF Dns!Before
  <2>3. Dns!Cardinality(Dns!Before(s)) \in Nat
    BY <2>2, DnsGiven, DnsFinite
  <2> QED
    BY <2>1, <2>3
<1>7. Dns!SilenceCostsOnce
  BY <1>6 DEF Dns!SilenceCostsOnce, Dns!CostInv
<1> QED
  BY <1>5, <1>7

\* A step of the whole is one of the component, or of another scene.
LEMMA DnsScene ==
  ASSUME [Next]_vars
  PROVE  /\ scene' = scene
         /\ scene = "dns" => [Dns!Next]_(Dns!vars)
BY DEF Next, vars, Dns!vars

\* The invariant of the component is one of the whole.
LEMMA DnsAlways == Spec => [](scene = "dns" => Dns!Inv)
<1>1. Init => (scene = "dns" => Dns!Inv)
  BY DnsBegins DEF Init, Begin
<1>2. (scene = "dns" => Dns!Inv) /\ [Next]_vars => (scene = "dns" => Dns!Inv)'
  BY DnsScene, DnsStep
<1> QED
  BY <1>1, <1>2, PTL DEF Spec

\* Whichever servers answer, fail or are silent, in whatever order the lookups
\* run: what is reported is what the zone holds, there is no answer only when
\* every server was asked, and a server that is down costs one timeout for each
\* lookup at most.  (query, exchange, lookupAll)
THEOREM LookupsAreTrue == Spec => []AnswersAreTrue
<1>1. (scene = "dns" => Dns!Inv) => AnswersAreTrue
  BY DnsKeeps DEF AnswersAreTrue
<1> QED
  BY <1>1, DnsAlways, PTL

(***************************************************************************)
(* The layers of the configuration.  What was read is indexed, no two      *)
(* documents of one name (IndexInv); a context is as the last document     *)
(* gives it that names it (ContextInv); and after every write that is      *)
(* merged, the tree is what the writes so far say (LastWriteDecides is     *)
(* inductive itself, since paths that are there are not about one          *)
(* another).                                                               *)
(*                                                                         *)
(* The registers: v1 documents, v2 given, v3 at, v4 next, v5 index, v6     *)
(* contexts, v7 current, v8 writes, v9 data, v10 origins, v11 item.        *)
(***************************************************************************)
LEMMA ConfigParts ==
  ASSUME Config!Inv
  PROVE  /\ Config!TypeOK /\ Config!PlaceInv /\ Config!IndexInv /\ Config!ContextInv
            /\ Config!ChosenInv /\ Config!WriteInv /\ Config!LastWriteDecides
         /\ v3 \in {"load", "contexts", "resolve"} => v9 = <<>> /\ v10 = <<>>
BY DEF Config!Inv

\* What is a sequence, and what stands where in two of them, one after the other.
LEMMA ConfigSequence ==
  ASSUME NEW S, NEW t \in Seq(S)
  PROVE  Config!IsSequence(t)
<1>1. Len(t) \in Nat /\ DOMAIN t = 1..Len(t) /\ t = [i \in 1..Len(t) |-> t[i]]
  BY LenProperties
<1>2. t \in [1..Len(t) -> {t[i] : i \in DOMAIN t}]
  BY <1>1
<1> QED
  BY <1>1, <1>2, SeqDef DEF Config!IsSequence, Config!Range

LEMMA ConfigLength ==
  ASSUME NEW t, Config!IsSequence(t)
  PROVE  Len(t) \in Nat /\ DOMAIN t = 1..Len(t)
BY LenProperties DEF Config!IsSequence

LEMMA ConfigAfter ==
  ASSUME NEW a, NEW b, Config!IsSequence(a), Config!IsSequence(b)
  PROVE  /\ Config!IsSequence(a \o b) /\ Len(a \o b) = Len(a) + Len(b) /\ Len(a) \in Nat
            /\ Len(b) \in Nat
         /\ \A i \in 1..Len(a) : (a \o b)[i] = a[i]
         /\ \A i \in 1..Len(b) : (a \o b)[Len(a) + i] = b[i]
         /\ DOMAIN a = 1..Len(a) /\ DOMAIN b = 1..Len(b) /\ DOMAIN (a \o b) = 1..(Len(a) + Len(b))
<1> DEFINE S == Config!Range(a) \cup Config!Range(b)
<1>1. a \in Seq(Config!Range(a)) /\ b \in Seq(Config!Range(b)) /\ Config!Range(a) \subseteq S
      /\ Config!Range(b) \subseteq S
  BY DEF Config!IsSequence
<1> HIDE DEF S
<1>2. a \in Seq(S) /\ b \in Seq(S)
  BY <1>1, SeqMonotonic, Zenon
<1>3. /\ a \o b \in Seq(S) /\ Len(a \o b) = Len(a) + Len(b) /\ Len(a) \in Nat /\ Len(b) \in Nat
      /\ \A i \in 1..Len(a) : (a \o b)[i] = a[i]
      /\ \A i \in 1..Len(b) : (a \o b)[Len(a) + i] = b[i]
      /\ DOMAIN a = 1..Len(a) /\ DOMAIN b = 1..Len(b) /\ DOMAIN (a \o b) = 1..(Len(a) + Len(b))
  BY <1>2
<1> QED
  BY <1>3, ConfigSequence

LEMMA ConfigNone ==
  Config!IsSequence(<<>>) /\ DOMAIN <<>> = {}
<1>1. <<>> \in Seq({}) /\ DOMAIN <<>> = {}
  OBVIOUS
<1>2. Config!IsSequence(<<>>)
  BY <1>1, ConfigSequence
<1> QED
  BY <1>1, <1>2

LEMMA ConfigOne ==
  ASSUME NEW x
  PROVE  Config!IsSequence(<<>>) /\ Config!IsSequence(<<x>>) /\ Len(<<x>>) = 1 /\ <<x>>[1] = x
<1>1. <<>> \in Seq({x}) /\ <<x>> \in Seq({x})
  OBVIOUS
<1> QED
  BY <1>1, ConfigSequence

-----------------------------------------------------------------------------
\* Paths: each is about itself, and its beginnings are about it.
LEMMA ConfigRelated ==
  /\ \A p : Config!IsSequence(p) => Config!Related(p, p)
  /\ \A p, q : Config!Related(p, q) <=> Config!Related(q, p)
<1>1. \A p : Config!IsSequence(p) => Config!Related(p, p)
  BY ConfigLength DEF Config!Related, Config!IsPrefix
<1> QED
  BY <1>1 DEF Config!Related

LEMMA ConfigBeginning ==
  ASSUME NEW p, Config!IsSequence(p), NEW n \in 1..Len(p)
  PROVE  /\ Config!Related(SubSeq(p, 1, n), p) /\ SubSeq(p, 1, Len(p)) = p
         /\ SubSeq(p, 1, n) = p => n = Len(p)
<1>1. p \in Seq(Config!Range(p)) /\ Len(p) \in Nat
  BY ConfigLength DEF Config!IsSequence
<1>2. \A i \in 1..n : p[i] \in Config!Range(p)
  BY <1>1, ElementOfSeq
<1>3. SubSeq(p, 1, n) \in Seq(Config!Range(p)) /\ Len(SubSeq(p, 1, n)) = n
  BY <1>1, <1>2, SubSeqProperties
<1>4. SubSeq(SubSeq(p, 1, n), 1, n) = SubSeq(p, 1, n)
  BY <1>3, SubSeqFull
<1>5. SubSeq(p, 1, Len(p)) = p
  BY <1>1, SubSeqFull
<1>6. n <= Len(p) /\ n \in Nat
  BY <1>1
<1>7. Config!IsPrefix(SubSeq(p, 1, n), p)
  BY <1>3, <1>4, <1>6 DEF Config!IsPrefix
<1>8. SubSeq(p, 1, n) = p => n = Len(p)
  BY <1>3
<1> QED
  BY <1>5, <1>7, <1>8 DEF Config!Related

-----------------------------------------------------------------------------
LEMMA ConfigGiven ==
  ASSUME Config!PlaceInv
  PROVE  /\ Config!IsSequence(v1) /\ Len(v1) \in Nat /\ DOMAIN v1 = 1..Len(v1)
         /\ \A i \in DOMAIN v1 :
              /\ Config!AreWrites(v1[i].body) /\ Config!AreWrites(v1[i].overrides)
              /\ Config!IsSequence(v1[i].contexts) /\ Len(v1[i].contexts) \in Nat
              /\ DOMAIN v1[i].contexts = 1..Len(v1[i].contexts)
              /\ \A j \in DOMAIN v1[i].contexts : Config!AreWrites(v1[i].contexts[j].overrides)
         /\ Config!AreWrites(v2.env) /\ Config!AreWrites(v2.set)
BY CommandsConstants, ConfigLength DEF Config!PlaceInv, Config!ConfigurationConstants

LEMMA ConfigBegins == Config!Init => Config!Inv
<1> SUFFICES ASSUME Config!Init PROVE Config!Inv
  OBVIOUS
<1> USE DEF Config!Init
<1>1. DOMAIN v9 = {} /\ DOMAIN v10 = {} /\ DOMAIN v6 = {} /\ Config!IsSequence(v6)
  BY ConfigNone
<1>2. Config!IsSequence(v1) /\ Len(v1) \in Nat /\ DOMAIN v1 = 1..Len(v1)
  BY CommandsConstants, ConfigLength DEF Config!ConfigurationConstants
<1>3. Config!TypeOK
  BY <1>1 DEF Config!TypeOK, Config!Range
<1>4. Config!PlaceInv
  BY <1>2 DEF Config!PlaceInv
<1>5. Config!IndexInv
  BY <1>2 DEF Config!IndexInv, Config!AreRead
<1>6. Config!ContextInv
  BY <1>1 DEF Config!ContextInv
<1> QED
  BY <1>3, <1>4, <1>5, <1>6 DEF Config!Inv, Config!ChosenInv, Config!WriteInv,
     Config!LastWriteDecides

LEMMA ConfigStops ==
  ASSUME Config!Inv, Config!Stop, UNCHANGED <<v1, v2>> PROVE Config!Inv'
<1> USE ConfigParts DEF Config!Stop, Config!tree
<1>1. Config!TypeOK'
  BY DEF Config!TypeOK, Config!Related
<1>2. Config!PlaceInv'
  BY DEF Config!PlaceInv
<1> QED
  BY <1>1, <1>2 DEF Config!Inv, Config!IndexInv, Config!ContextInv, Config!ChosenInv,
     Config!WriteInv, Config!LastWriteDecides

LEMMA ConfigLoad ==
  ASSUME Config!Inv, Config!Load PROVE Config!Inv'
<1> USE ConfigParts
<1> DEFINE d == v1[v4]
<1>1. CASE Config!Bad(d)
  BY <1>1, ConfigStops DEF Config!Load
<1>2. CASE ~Config!Bad(d)
  <2>1. /\ v3 = "load" /\ v4 <= Len(v1) /\ v4' = v4 + 1
        /\ v5' = (IF d.kind = "Config" THEN v5 ELSE v5 \cup {d})
        /\ UNCHANGED <<v3, v11, v6, v7, v8, v9, v10, v1, v2>>
    BY <1>2 DEF Config!Load, Config!tree
  <2>2. v4 \in DOMAIN v1 /\ v4 \in Nat /\ Len(v1) \in Nat
    BY <2>1, ConfigGiven DEF Config!PlaceInv
  <2>3. Config!AreRead' = Config!AreRead \cup {v4} /\ v4 \notin Config!AreRead
    BY <2>1, <2>2, ConfigGiven DEF Config!AreRead
  <2>4. Config!PlaceInv'
    BY <2>1, <2>2 DEF Config!PlaceInv
  <2>5. Config!TypeOK'
    BY <2>1, <2>2 DEF Config!TypeOK, Config!Range, Config!Related
  <2>6. Config!IndexInv'
    <3>1. d.kind # "Config" => \A e \in v5 : e.kind = d.kind => e.name # d.name
      BY <1>2 DEF Config!Bad, Config!Second
    <3>2. \A e \in v5' : \E i \in Config!AreRead' : v1'[i] = e
      BY <2>1, <2>3 DEF Config!IndexInv
    <3>3. \A i \in Config!AreRead' : v1'[i].kind # "Config" => v1'[i] \in v5'
      BY <2>1, <2>3 DEF Config!IndexInv
    <3>4. \A i, j \in Config!AreRead' :
            /\ v1[i].kind # "Config" /\ v1[i].kind = v1[j].kind
            /\ v1[i].name = v1[j].name
            => i = j
      BY <2>1, <2>3, <3>1 DEF Config!IndexInv
    <3> QED
      BY <2>1, <3>2, <3>3, <3>4 DEF Config!IndexInv
  <2>7. Config!ContextInv'
    BY <2>1, ConfigNone DEF Config!ContextInv, Config!PlaceInv
  <2> QED
    BY <2>1, <2>4, <2>5, <2>6, <2>7 DEF Config!Inv, Config!ChosenInv, Config!WriteInv,
       Config!LastWriteDecides
<1> QED
  BY <1>1, <1>2

LEMMA ConfigLoaded ==
  ASSUME Config!Inv, Config!Loaded PROVE Config!Inv'
<1> USE ConfigParts
<1>1. /\ v3 = "load" /\ v4 > Len(v1) /\ v3' = "contexts" /\ v4' = 1
      /\ UNCHANGED <<v1, v2, v11, v5, v6, v7, v8, v9, v10>>
  BY DEF Config!Loaded, Config!tree
<1>2. Config!AreRead' = Config!AreRead
  BY <1>1, ConfigGiven DEF Config!AreRead, Config!PlaceInv
<1>3. Config!PlaceInv'
  BY <1>1, ConfigGiven DEF Config!PlaceInv
<1>4. Config!TypeOK'
  BY <1>1 DEF Config!TypeOK, Config!Related
<1>5. Config!IndexInv'
  BY <1>1, <1>2 DEF Config!IndexInv
<1>6. Config!ContextInv'
  BY <1>1, ConfigNone DEF Config!ContextInv, Config!PlaceInv
<1> QED
  BY <1>1, <1>3, <1>4, <1>5, <1>6 DEF Config!Inv, Config!ChosenInv, Config!WriteInv,
     Config!LastWriteDecides

-----------------------------------------------------------------------------
\* A context that is taken over is the last of its name so far.
LEMMA ConfigMergeContext ==
  ASSUME Config!Inv, Config!MergeContext PROVE Config!Inv'
<1> USE ConfigParts
<1>0. PICK d, c, at0, no : d = v1[v4] /\ c = d.contexts[v11] /\ at0 = v4 /\ no = v11
  OBVIOUS
<1>1. CASE Config!Twice(d, v11)
  BY <1>0, <1>1, ConfigStops DEF Config!MergeContext
<1>2. CASE ~Config!Twice(d, v11)
  <2>1. /\ v3 = "contexts" /\ v4 <= Len(v1) /\ d.kind = "Config" /\ v11 <= Len(d.contexts)
        /\ v6' = Config!Folded(v6, c) /\ v11' = v11 + 1
        /\ UNCHANGED <<v1, v2, v3, v4, v5, v7, v8, v9, v10>>
    BY <1>0, <1>2 DEF Config!MergeContext, Config!tree
  <2>2. v4 \in DOMAIN v1 /\ v4 \in Nat /\ v11 \in Nat /\ v11 \in DOMAIN d.contexts
    BY <1>0, <2>1, ConfigGiven DEF Config!PlaceInv
  <2>3. Config!PlaceInv'
    BY <2>1, <2>2 DEF Config!PlaceInv
  <2>4. Config!TypeOK'
    BY <2>1 DEF Config!TypeOK, Config!Related
  <2>5. Config!IndexInv'
    BY <2>1 DEF Config!IndexInv, Config!AreRead
  <2>6. Config!ContextInv'
    <3>1. /\ \A k \in DOMAIN v1 : k # at0 => Config!TakenOf(k)' = Config!TakenOf(k)
          /\ Config!TakenOf(at0)' = Config!TakenOf(at0) \cup {no}
      BY <1>0, <2>1, <2>2, ConfigGiven DEF Config!TakenOf
    <3>2. \A k \in DOMAIN v1 : Config!TakenOf(k) # {} => k <= at0
      BY <1>0, <2>1, <2>2, ConfigGiven DEF Config!TakenOf
    <3>3. \A m \in Config!TakenOf(at0) : d.contexts[m].name # c.name
      <4>1. ASSUME NEW m \in Config!TakenOf(at0) PROVE m \in 1..(v11 - 1)
        BY <1>0, <2>1, <2>2, ConfigGiven DEF Config!TakenOf
      <4> QED
        BY <1>0, <1>2, <4>1 DEF Config!Twice
    <3>4. Config!LastGiven(c, at0)'
      <4>1. c = v1'[at0].contexts[no] /\ no \in Config!TakenOf(at0)'
        BY <1>0, <2>1, <3>1
      <4>2. ASSUME NEW l \in DOMAIN v1, NEW n \in Config!TakenOf(l)' PROVE l <= at0
        BY <1>0, <2>2, <3>1, <3>2, ConfigGiven
      <4> QED
        BY <1>0, <2>1, <2>2, <4>1, <4>2 DEF Config!LastGiven
    <3>5. ASSUME NEW x, NEW k, Config!LastGiven(x, k), x.name # c.name PROVE Config!LastGiven(x, k)'
      <4>1. k \in DOMAIN v1 /\ \E m \in Config!TakenOf(k)' : v1'[k].contexts[m] = x
        BY <2>1, <3>1, <3>5 DEF Config!LastGiven
      <4>2. ASSUME NEW l \in DOMAIN v1, NEW n \in Config!TakenOf(l)',
                   v1[l].contexts[n].name = x.name
            PROVE  l <= k
        BY <1>0, <3>1, <3>5, <4>2 DEF Config!LastGiven
      <4> QED
        BY <2>1, <4>1, <4>2 DEF Config!LastGiven
    <3>6. Config!IsSequence(v6) /\ Len(v6) \in Nat /\ DOMAIN v6 = 1..Len(v6)
      BY <2>1, ConfigLength DEF Config!ContextInv
    <3>7. CASE \E i \in DOMAIN v6 : v6[i].name = c.name
      <4>1. v6' = [i \in DOMAIN v6 |-> IF v6[i].name = c.name THEN c ELSE v6[i]]
        BY <2>1, <3>7 DEF Config!Folded
      <4>2. Config!IsSequence(v6')
        <5>1. v6' \in [1..Len(v6) -> Config!Range(v6) \cup {c}]
          BY <3>6, <4>1 DEF Config!Range
        <5>2. v6' \in Seq(Config!Range(v6) \cup {c})
          BY <3>6, <5>1, SeqDef
        <5> QED
          BY <5>2, ConfigSequence
      <4>3. DOMAIN v6' = DOMAIN v6 /\ \A i \in DOMAIN v6 : v6'[i].name = v6[i].name
        BY <4>1
      <4>4. \A i, j \in DOMAIN v6' : v6'[i].name = v6'[j].name => i = j
        BY <2>1, <4>3 DEF Config!ContextInv
      <4>5. ASSUME NEW i \in DOMAIN v6' PROVE \A x : x = v6'[i]
                   => \E k \in DOMAIN v1' : Config!LastGiven(x, k)'
        <5>1. i \in DOMAIN v6
          BY <4>3
        <5>2. CASE v6[i].name = c.name
          BY <1>0, <2>1, <2>2, <3>4, <4>1, <5>1, <5>2
        <5>3. CASE v6[i].name # c.name
          <6>1. PICK k \in DOMAIN v1 : Config!LastGiven(v6[i], k)
            BY <2>1, <5>1 DEF Config!ContextInv
          <6> QED
            BY <2>1, <3>5, <4>1, <5>1, <5>3, <6>1
        <5> QED
          BY <5>2, <5>3
      <4> QED
        BY <4>2, <4>4, <4>5 DEF Config!ContextInv
    <3>8. CASE ~\E i \in DOMAIN v6 : v6[i].name = c.name
      <4>1. v6' = Append(v6, c)
        BY <2>1, <3>8 DEF Config!Folded
      <4>2. v6 \in Seq(Config!Range(v6) \cup {c}) /\ c \in Config!Range(v6) \cup {c}
        BY <3>6, SeqMonotonic DEF Config!IsSequence
      <4>3. /\ v6' \in Seq(Config!Range(v6) \cup {c}) /\ DOMAIN v6' = 1..(Len(v6) + 1)
            /\ \A i \in DOMAIN v6 : v6'[i] = v6[i]
            /\ v6'[Len(v6) + 1] = c
        BY <3>6, <4>1, <4>2
      <4>4. Config!IsSequence(v6')
        BY <4>3, ConfigSequence
      <4>5. \A i \in DOMAIN v6' : i \in DOMAIN v6 \/ i = Len(v6) + 1
        BY <3>6, <4>3
      <4>6. \A i, j \in DOMAIN v6' : v6'[i].name = v6'[j].name => i = j
        BY <2>1, <3>8, <4>3, <4>5 DEF Config!ContextInv
      <4>7. ASSUME NEW i \in DOMAIN v6' PROVE \A x : x = v6'[i]
                   => \E k \in DOMAIN v1' : Config!LastGiven(x, k)'
        <5>2. CASE i = Len(v6) + 1
          BY <1>0, <2>1, <2>2, <3>4, <4>3, <5>2
        <5>3. CASE i \in DOMAIN v6
          <6>1. PICK k \in DOMAIN v1 : Config!LastGiven(v6[i], k)
            BY <2>1, <5>3 DEF Config!ContextInv
          <6> QED
            BY <2>1, <3>5, <3>8, <4>3, <5>3, <6>1
        <5> QED
          BY <4>5, <5>2, <5>3
      <4> QED
        BY <4>4, <4>6, <4>7 DEF Config!ContextInv
    <3> QED
      BY <3>7, <3>8
  <2> QED
    BY <2>1, <2>3, <2>4, <2>5, <2>6 DEF Config!Inv, Config!ChosenInv, Config!WriteInv,
       Config!LastWriteDecides
<1> QED
  BY <1>1, <1>2

LEMMA ConfigSameContexts ==
  ASSUME Config!Inv, v3 # "refused", v3' # "refused", UNCHANGED <<v1, v6>>,
         \A k \in DOMAIN v1 : Config!TakenOf(k)' = Config!TakenOf(k)
  PROVE  Config!ContextInv'
<1> USE ConfigParts
<1>1. \A x, k : Config!LastGiven(x, k) => Config!LastGiven(x, k)'
  BY DEF Config!LastGiven
<1> QED
  BY <1>1 DEF Config!ContextInv

LEMMA ConfigMergeConfig ==
  ASSUME Config!Inv, Config!MergeConfig PROVE Config!Inv'
<1> USE ConfigParts
<1> DEFINE d == v1[v4]
<1>1. /\ v3 = "contexts" /\ v4 <= Len(v1) /\ (d.kind = "Config" => v11 > Len(d.contexts))
      /\ v4' = v4 + 1 /\ v11' = 1
      /\ UNCHANGED <<v1, v2, v3, v5, v6, v8, v9, v10>>
  BY DEF Config!MergeConfig, Config!tree
<1>2. v4 \in DOMAIN v1 /\ v4 \in Nat /\ v11 \in Nat /\ Len(v1) \in Nat
  BY <1>1, ConfigGiven DEF Config!PlaceInv
<1>3. Config!PlaceInv'
  BY <1>1, <1>2 DEF Config!PlaceInv
<1>4. Config!TypeOK'
  BY <1>1 DEF Config!TypeOK, Config!Related
<1>5. Config!IndexInv'
  BY <1>1 DEF Config!IndexInv, Config!AreRead
<1>6. \A k \in DOMAIN v1 : Config!TakenOf(k)' = Config!TakenOf(k)
  BY <1>1, <1>2, ConfigGiven DEF Config!TakenOf
<1>7. Config!ContextInv'
  BY <1>1, <1>6, ConfigSameContexts
<1> QED
  BY <1>1, <1>3, <1>4, <1>5, <1>7 DEF Config!Inv, Config!ChosenInv, Config!WriteInv,
     Config!LastWriteDecides

LEMMA ConfigMerged ==
  ASSUME Config!Inv, Config!Merged PROVE Config!Inv'
<1> USE ConfigParts
<1>1. /\ v3 = "contexts" /\ v4 > Len(v1) /\ v3' = "resolve"
      /\ UNCHANGED <<v1, v2, v4, v11, v5, v6, v7, v8, v9, v10>>
  BY DEF Config!Merged, Config!tree
<1>2. Config!PlaceInv'
  BY <1>1 DEF Config!PlaceInv
<1>3. Config!TypeOK'
  BY <1>1 DEF Config!TypeOK, Config!Related
<1>4. Config!IndexInv'
  BY <1>1 DEF Config!IndexInv, Config!AreRead
<1>5. \A k \in DOMAIN v1 : Config!TakenOf(k)' = Config!TakenOf(k)
  BY <1>1, ConfigGiven DEF Config!TakenOf, Config!PlaceInv
<1>6. Config!ContextInv'
  BY <1>1, <1>5, ConfigSameContexts
<1> QED
  BY <1>1, <1>2, <1>3, <1>4, <1>6 DEF Config!Inv, Config!ChosenInv, Config!WriteInv,
     Config!LastWriteDecides

-----------------------------------------------------------------------------
\* The layers of a context, one after the other.
ConfigAreLayered(ws) == Config!AreWrites(ws) /\ \A i \in DOMAIN ws : ws[i].layer \in Config!Layers

LEMMA ConfigIn ==
  ASSUME NEW layer \in Config!Layers, NEW ws, Config!AreWrites(ws)
  PROVE  ConfigAreLayered(Config!In(layer, ws))
<1> DEFINE t == Config!In(layer, ws)
<1>1. Len(ws) \in Nat /\ DOMAIN ws = 1..Len(ws)
  BY ConfigLength DEF Config!AreWrites
<1>2. t = [i \in 1..Len(ws) |-> [layer |-> layer, path |-> ws[i].path, value |-> ws[i].value]]
  BY <1>1 DEF Config!In
<1>3. \A i \in 1..Len(ws) : t[i].layer \in Config!Layers /\ t[i].path = ws[i].path
  BY <1>2
<1>4. DOMAIN t = 1..Len(ws) /\ t \in [1..Len(ws) -> {t[i] : i \in 1..Len(ws)}]
  BY <1>2
<1>5. t \in Seq({t[i] : i \in 1..Len(ws)})
  BY <1>1, <1>4, SeqDef
<1>6. Config!IsSequence(t)
  BY <1>5, ConfigSequence
<1> QED
  BY <1>1, <1>3, <1>4, <1>6 DEF ConfigAreLayered, Config!AreWrites

LEMMA ConfigLayers ==
  ASSUME NEW a, NEW b, ConfigAreLayered(a), ConfigAreLayered(b)
  PROVE  ConfigAreLayered(a \o b)
<1>1. Config!IsSequence(a) /\ Config!IsSequence(b)
  BY DEF ConfigAreLayered, Config!AreWrites
<1> DEFINE c == a \o b
<1>2. /\ Config!IsSequence(c) /\ Len(a) \in Nat /\ Len(b) \in Nat /\ DOMAIN c = 1..(Len(a) + Len(b))
      /\ \A i \in 1..Len(a) : c[i] = a[i]
      /\ \A i \in 1..Len(b) : c[Len(a) + i] = b[i]
      /\ DOMAIN a = 1..Len(a) /\ DOMAIN b = 1..Len(b)
  BY <1>1, ConfigAfter
<1> HIDE DEF c
<1>3. ASSUME NEW i \in DOMAIN c
      PROVE  (i \in DOMAIN a /\ c[i] = a[i]) \/ \E j \in DOMAIN b : c[i] = b[j]
  <2>1. i \in 1..Len(a) \/ (i - Len(a) \in 1..Len(b) /\ i = Len(a) + (i - Len(a)))
    BY <1>2
  <2> QED
    BY <1>2, <2>1
<1>4. \A i \in DOMAIN c : Config!IsSequence(c[i].path) /\ c[i].path # <<>>
      /\ c[i].layer \in Config!Layers
  BY <1>3 DEF ConfigAreLayered, Config!AreWrites
<1> QED
  BY <1>2, <1>4 DEF ConfigAreLayered, Config!AreWrites, c

LEMMA ConfigPath ==
  Config!IsSequence(<<"fanout", "max">>) /\ <<"fanout", "max">> # <<>>
<1>1. <<"fanout", "max">> \in Seq({"fanout", "max"})
  OBVIOUS
<1> QED
  BY <1>1, ConfigSequence

LEMMA ConfigFixed ==
  ASSUME NEW value
  PROVE  Config!AreWrites(<<Config!Write(<<"fanout", "max">>, value)>>) /\ Config!AreWrites(<<>>)
<1> DEFINE w == Config!Write(<<"fanout", "max">>, value)
<1>1. Config!IsSequence(w.path) /\ w.path # <<>>
  BY ConfigPath DEF Config!Write
<1> HIDE DEF w
<1>2. Config!IsSequence(<<w>>) /\ DOMAIN <<w>> = {1} /\ <<w>>[1] = w /\ Config!IsSequence(<<>>)
      /\ DOMAIN <<>> = {}
  BY ConfigOne
<1>3. Config!AreWrites(<<w>>) /\ Config!AreWrites(<<>>)
  BY <1>1, <1>2 DEF Config!AreWrites
<1> QED
  BY <1>3 DEF w

LEMMA ConfigLayered ==
  ASSUME Config!Inv, v3 = "resolve", NEW c \in Config!Context, NEW cluster \in v5, NEW site \in v5
  PROVE  ConfigAreLayered(Config!Layered(c, cluster, site))
<1> USE ConfigParts
<1>1. \A e \in v5 : Config!AreWrites(e.body) /\ Config!AreWrites(e.overrides)
  BY ConfigGiven DEF Config!IndexInv, Config!AreRead
<1>2. Config!AreWrites(c.overrides)
  <2>1. Config!IsSequence(v6) /\ Len(v6) = 1 => 1 \in DOMAIN v6
    BY ConfigLength
  <2>2. \E i \in DOMAIN v6 : v6[i] = c
    BY <2>1 DEF Config!Context, Config!Range, Config!ContextInv
  <2> QED
    BY <2>2, ConfigGiven DEF Config!ContextInv, Config!LastGiven, Config!TakenOf
<1>3. Config!AreWrites(v2.env) /\ Config!AreWrites(v2.set)
      /\ Config!AreWrites(Config!FanoutFlag) /\ Config!AreWrites(<<Config!DefaultFanout>>)
  BY ConfigGiven, ConfigFixed DEF Config!FanoutFlag, Config!DefaultFanout
<1> DEFINE ws == Config!workstationFor
           w == CHOOSE e \in ws : TRUE
           Own == IF ws
             = {} THEN <<>> ELSE Config!In("workstation", w.body) \o Config!In("workstation",
               w.overrides)
<1>4. ConfigAreLayered(Own)
  <2>1. CASE ws = {}
    <3>1. ConfigAreLayered(<<>>)
      BY ConfigFixed, ConfigNone DEF ConfigAreLayered
    <3> QED
      BY <2>1, <3>1
  <2>2. CASE ws # {}
    <3>1. w \in ws
      BY <2>2
    <3>2. w \in v5
      BY <3>1 DEF Config!workstationFor, Config!Named
    <3>3. ConfigAreLayered(Config!In("workstation", w.body))
          /\ ConfigAreLayered(Config!In("workstation", w.overrides))
      BY <1>1, <3>2, ConfigIn DEF Config!Layers
    <3> QED
      BY <2>2, <3>3, ConfigLayers
  <2> QED
    BY <2>1, <2>2
<1>5. /\ ConfigAreLayered(Config!In("defaults", <<Config!DefaultFanout>>))
      /\ ConfigAreLayered(Config!In("site", site.body))
      /\ ConfigAreLayered(Config!In("cluster", cluster.body))
      /\ ConfigAreLayered(Config!In("cluster", cluster.overrides))
      /\ ConfigAreLayered(Config!In("context", c.overrides))
      /\ ConfigAreLayered(Config!In("environment", v2.env))
      /\ ConfigAreLayered(Config!In("flags", v2.set))
      /\ ConfigAreLayered(Config!In("flags", Config!FanoutFlag))
  BY <1>1, <1>2, <1>3, ConfigIn DEF Config!Layers
<1> HIDE DEF Own
<1>6. ConfigAreLayered(Config!In("defaults", <<Config!DefaultFanout>>) \o Config!In("site",
      site.body)
     \o Config!In("cluster", cluster.body) \o Config!In("cluster", cluster.overrides)
     \o Own \o Config!In("context", c.overrides)
     \o Config!In("environment", v2.env) \o Config!In("flags", v2.set) \o Config!In("flags",
       Config!FanoutFlag))
  BY <1>4, <1>5, ConfigLayers
<1> QED
  BY <1>6 DEF Config!Layered, Own

LEMMA ConfigResolve ==
  ASSUME Config!Inv, Config!Resolve PROVE Config!Inv'
<1> USE ConfigParts
<1> DEFINE found == {f \in Config!Context \X v5 \X v5 :
                  /\ f[2].kind = "Cluster" /\ f[2].name = f[1].cluster
                  /\ f[3].kind = "Site" /\ f[3].name = f[2].site}
<1>1. CASE found = {}
  BY <1>1, ConfigStops DEF Config!Resolve
<1>2. CASE found # {}
  <2>1. /\ v3 = "resolve" /\ v3' = "merge" /\ v4' = 1
        /\ \E f \in found : v8' = Config!Layered(f[1], f[2], f[3])
        /\ UNCHANGED <<v1, v2, v11, v5, v6, v7, v9, v10>>
    BY <1>2 DEF Config!Resolve, Config!tree
  <2>2. PICK f \in found : v8' = Config!Layered(f[1], f[2], f[3])
    BY <2>1
  <2>3. f[1] \in Config!Context /\ f[2] \in v5 /\ f[3] \in v5
    OBVIOUS
  <2>4. ConfigAreLayered(v8')
    BY <2>1, <2>2, <2>3, ConfigLayered
  <2>5. Config!Context' = Config!Context
    BY <2>1 DEF Config!Context
  <2>6. Config!IsSequence(v8') /\ Len(v8') \in Nat
    BY <2>4, ConfigLength DEF ConfigAreLayered, Config!AreWrites
  <2>7. Config!PlaceInv'
    BY <2>1, <2>6 DEF Config!PlaceInv
  <2>8. Config!TypeOK'
    BY <2>1 DEF Config!TypeOK, Config!Related
  <2>9. Config!IndexInv'
    BY <2>1 DEF Config!IndexInv, Config!AreRead
  <2>10. \A k \in DOMAIN v1 : Config!TakenOf(k)' = Config!TakenOf(k)
    BY <2>1 DEF Config!TakenOf
  <2>11. Config!ContextInv'
    BY <2>1, <2>10, ConfigSameContexts
  <2>12. Config!LastWriteDecides'
    <3>1. DOMAIN v9' = {} /\ DOMAIN v10' = {} /\ 1..(v4' - 1) = {}
      BY <2>1
    <3> QED
      BY <3>1 DEF Config!LastWriteDecides
  <2> QED
    BY <2>1, <2>3, <2>4, <2>5, <2>7, <2>8, <2>9, <2>11, <2>12 DEF Config!Inv, Config!ChosenInv,
       Config!WriteInv, ConfigAreLayered
<1> QED
  BY <1>1, <1>2

-----------------------------------------------------------------------------
\* The writes that count so far.
ConfigLastBefore(n) == {i \in 1..n : \A j \in 1..n : j > i => ~Config!Related(v8[i].path,
  v8[j].path)}

ConfigDecided(i) ==
  LET w == v8[i] IN
  /\ v9[w.path] = w.value /\ v10[w.path] = w.layer
  /\ Config!FromCommandLine(w.path) <=> w.layer \in Config!FromCommand

LEMMA ConfigMerge ==
  ASSUME Config!Inv, Config!Merge PROVE Config!Inv'
<1> USE ConfigParts
<1> DEFINE w == v8[v4]
<1>1. CASE w.layer \in Config!FromCommand /\ ~Config!validatePath(w.path)
  BY <1>1, ConfigStops DEF Config!Merge
<1>2. CASE ~(w.layer \in Config!FromCommand /\ ~Config!validatePath(w.path))
  <2>1. /\ v3 = "merge" /\ v4 <= Len(v8) /\ v4' = v4 + 1
        /\ v9' = [p \in {q \in DOMAIN v9 : ~Config!Related(q, w.path)} \cup {w.path} |->
                        IF p = w.path THEN w.value ELSE v9[p]]
        /\ v10' = [p \in Config!OriginsKept(w.path) \cup {w.path} |->
                           IF p = w.path THEN w.layer ELSE v10[p]]
        /\ UNCHANGED <<v1, v2, v3, v11, v5, v6, v7, v8>>
    BY <1>2 DEF Config!Merge
  <2>2. /\ v4 \in Nat \ {0} /\ Len(v8) \in Nat /\ DOMAIN v8 = 1..Len(v8) /\ v4 \in DOMAIN v8
        /\ \A i \in DOMAIN v8 : Config!IsSequence(v8[i].path) /\ v8[i].path # <<>>
        /\ \A i \in DOMAIN v8 : v8[i].layer \in Config!Layers
    BY <2>1, ConfigLength DEF Config!PlaceInv, Config!WriteInv, Config!AreWrites
  <2>3. /\ v4' - 1 = v4 /\ \A i : i \in 1..v4 <=> i \in 1..(v4 - 1) \/ i = v4
        /\ \A i \in 1..(v4 - 1) : i \in DOMAIN v8 /\ v4 > i
    BY <2>1, <2>2
  <2> DEFINE L == ConfigLastBefore(v4 - 1)
             M == ConfigLastBefore(v4)
  <2>4. /\ DOMAIN v9 = {v8[i].path : i \in L} /\ DOMAIN v10 = DOMAIN v9
        /\ \A i \in L : v9[v8[i].path] = v8[i].value /\ v10[v8[i].path] = v8[i].layer
    BY <2>1 DEF Config!LastWriteDecides, ConfigLastBefore
  <2>5. \A i \in L : i \in DOMAIN v8
    BY <2>3 DEF ConfigLastBefore
  <2>6. \A i : i \in M <=> i = v4 \/ (i \in L /\ ~Config!Related(v8[i].path, w.path))
    <3>1. \A i, j : i \in 1..v4 /\ j \in 1..(v4 - 1) => (j > i => i \in 1..(v4 - 1))
      BY <2>2
    <3>2. \A j \in 1..v4 : ~(j > v4)
      BY <2>2
    <3> QED
      BY <2>3, <3>1, <3>2 DEF ConfigLastBefore
  <2>7. Config!Related(w.path, w.path)
    BY <2>2, ConfigRelated
  <2>8. DOMAIN v10' = DOMAIN v9'
    <3>1. CASE Config!Replaced(w.path)
      BY <2>1, <2>4, <3>1 DEF Config!OriginsKept
    <3>2. CASE ~Config!Replaced(w.path)
      <4>1. \A p \in DOMAIN v9 : p # w.path => ~Config!Related(p, w.path)
        BY <3>2 DEF Config!Replaced
      <4> QED
        BY <2>1, <2>4, <3>2, <4>1 DEF Config!OriginsKept
    <3> QED
      BY <3>1, <3>2
  <2>9. DOMAIN v9' = {v8[i].path : i \in M}
    BY <2>1, <2>4, <2>6
  <2>10. /\ v9'[w.path] = w.value /\ v10'[w.path] = w.layer
         /\ \A p \in DOMAIN v9' : p # w.path
            => v9'[p] = v9[p] /\ v10'[p] = v10[p] /\ ~Config!Related(p, w.path)
                                                /\ p \in DOMAIN v9
    BY <2>1, <2>8
  <2>11. \A i \in M : v9'[v8[i].path] = v8[i].value /\ v10'[v8[i].path] = v8[i].layer
    BY <2>4, <2>6, <2>7, <2>9, <2>10
  <2>12. \A p, q \in DOMAIN v9' : Config!Related(p, q) => p = q
    BY <2>10, ConfigRelated DEF Config!TypeOK
  <2>13. \A i \in M : i \in DOMAIN v8
    BY <2>2, <2>5, <2>6
  <2>14. ASSUME NEW i \in M
         PROVE  Config!FromCommandLine(v8[i].path)' <=> v8[i].layer \in Config!FromCommand
    <3> DEFINE p == v8[i].path
               told == {n \in 1..Len(p) : SubSeq(p, 1, n) \in DOMAIN v10'}
    <3>1. p \in DOMAIN v9' /\ Config!IsSequence(p) /\ p # <<>>
      BY <2>2, <2>9, <2>13
    <3>2. Len(p) \in Nat \ {0}
      BY <3>1, EmptySeq DEF Config!IsSequence
    <3>3. SubSeq(p, 1, Len(p)) = p
      BY <3>1, <3>2, ConfigBeginning
    <3>4. \A n \in 1..Len(p) : SubSeq(p, 1, n) \in DOMAIN v10' => n = Len(p)
      BY <2>8, <2>12, <3>1, ConfigBeginning
    <3>5. told = {Len(p)}
      <4>0. p \in DOMAIN v10'
        BY <2>8, <3>1
      <4>1. Len(p) \in 1..Len(p) /\ SubSeq(p, 1, Len(p)) \in DOMAIN v10'
        <5> HIDE DEF p
        <5>1. SubSeq(p, 1, Len(p)) \in DOMAIN v10'
          BY <3>3, <4>0, Zenon
        <5> QED
          BY <3>2, <5>1
      <4>2. \A n \in told : n = Len(p)
        BY <3>4
      <4> QED
        BY <4>1, <4>2
    <3>6. (CHOOSE n \in told : \A m \in told : m <= n) = Len(p)
      BY <3>2, <3>5
    <3>7. v10'[SubSeq(p, 1, CHOOSE n \in told : \A m \in told : m <= n)] = v8[i].layer
      BY <2>11, <3>3, <3>6
    <3>8. Config!FromCommandLine(p)'
          <=> (told # {} /\ v10'[SubSeq(p, 1,
            CHOOSE n \in told : \A m \in told : m <= n)] \in Config!FromCommand)
      BY <2>1 DEF Config!FromCommandLine
    <3> QED
      BY <2>1, <3>5, <3>7, <3>8
  <2>15. Config!LastWriteDecides'
    <3>1. ASSUME NEW i \in M PROVE ConfigDecided(i)'
      BY <2>1, <2>11, <2>14 DEF ConfigDecided
    <3>2. PICK n : n = v4
      OBVIOUS
    <3>3. ConfigLastBefore(n)' = M
      BY <2>1, <3>2 DEF ConfigLastBefore
    <3>4. v4' - 1 = n
      BY <2>3, <3>2
    <3> HIDE DEF M
    <3>5. (\A i \in ConfigLastBefore(n) : ConfigDecided(i))'
          /\ (ConfigLastBefore(n) = {i \in 1..n : \A j \in 1..n : j > i
             => ~Config!Related(v8[i].path, v8[j].path)})'
      BY <3>1, <3>3 DEF ConfigLastBefore
    <3>6. /\ DOMAIN v9' = {v8'[i].path : i \in ConfigLastBefore(n)'} /\ DOMAIN v10' = DOMAIN v9'
      BY <2>1, <2>8, <2>9, <3>3
    <3> QED
      BY <3>4, <3>5, <3>6 DEF Config!LastWriteDecides, ConfigDecided
  <2>16. Config!PlaceInv'
    BY <2>1, <2>2 DEF Config!PlaceInv
  <2>17. Config!TypeOK'
    <3>1. \A p \in DOMAIN v10' : v10'[p] \in Config!Layers
      BY <2>2, <2>8, <2>9, <2>11, <2>13
    <3> QED
      BY <2>1, <2>12, <3>1 DEF Config!TypeOK, Config!Range
  <2>18. Config!IndexInv'
    BY <2>1 DEF Config!IndexInv, Config!AreRead
  <2>19. \A k \in DOMAIN v1 : Config!TakenOf(k)' = Config!TakenOf(k)
    BY <2>1 DEF Config!TakenOf
  <2>20. Config!ContextInv'
    BY <2>1, <2>19, ConfigSameContexts
  <2>21. Config!ChosenInv' /\ Config!WriteInv'
    BY <2>1 DEF Config!ChosenInv, Config!Context, Config!WriteInv
  <2> QED
    BY <2>1, <2>15, <2>16, <2>17, <2>18, <2>20, <2>21 DEF Config!Inv
<1> QED
  BY <1>1, <1>2

LEMMA ConfigResolved ==
  ASSUME Config!Inv, Config!Resolved PROVE Config!Inv'
<1> USE ConfigParts
<1>1. /\ v3 = "merge" /\ v3' = "done"
      /\ UNCHANGED <<v1, v2, v4, v11, v5, v6, v7, v8, v9, v10>>
  BY DEF Config!Resolved, Config!tree
<1>2. Config!PlaceInv' /\ Config!TypeOK' /\ Config!IndexInv'
  BY <1>1 DEF Config!PlaceInv, Config!TypeOK, Config!Related, Config!IndexInv, Config!AreRead
<1>3. \A k \in DOMAIN v1 : Config!TakenOf(k)' = Config!TakenOf(k)
  BY <1>1 DEF Config!TakenOf
<1>4. Config!ContextInv'
  BY <1>1, <1>3, ConfigSameContexts
<1>5. Config!LastWriteDecides'
  BY <1>1 DEF Config!LastWriteDecides, Config!FromCommandLine
<1>6. Config!ChosenInv' /\ Config!WriteInv'
  BY <1>1 DEF Config!ChosenInv, Config!Context, Config!WriteInv
<1> QED
  BY <1>1, <1>2, <1>4, <1>5, <1>6 DEF Config!Inv

LEMMA ConfigStep ==
  Config!Inv /\ [Config!Next]_(Config!vars) => Config!Inv'
<1> SUFFICES ASSUME Config!Inv, [Config!Next]_(Config!vars) PROVE Config!Inv'
  OBVIOUS
<1>1. CASE UNCHANGED Config!vars
  BY <1>1 DEF Config!vars, Config!Inv, Config!TypeOK, Config!PlaceInv, Config!IndexInv,
     Config!AreRead, Config!ContextInv, Config!LastGiven, Config!TakenOf, Config!ChosenInv,
     Config!Context, Config!WriteInv, Config!LastWriteDecides, Config!FromCommandLine
<1>2. CASE Config!Next
  BY <1>2, ConfigLoad, ConfigLoaded, ConfigMergeContext, ConfigMergeConfig, ConfigMerged,
     ConfigResolve,
     ConfigMerge, ConfigResolved DEF Config!Next
<1> QED
  BY <1>1, <1>2

-----------------------------------------------------------------------------
\* The sets of Config that are finite, and how many elements they have.
LEMMA ConfigSizes ==
  \A S : (Config!IsFiniteSet(S) <=> IsFiniteSet(S)) /\ Config!Cardinality(S) = Cardinality(S)
BY DEF Config!IsFiniteSet, Config!Cardinality, IsFiniteSet, Cardinality

\* What the properties say, from the invariant.
LEMMA ConfigKeeps ==
  Config!Inv => Config!LastWriteDecides /\ Config!NoneStandsIn
<1> SUFFICES ASSUME Config!Inv, v3 = "done" PROVE Config!NoneStandsIn
  BY ConfigParts DEF Config!NoneStandsIn
<1> USE ConfigParts
<1> DEFINE c == CHOOSE x \in Config!Context : TRUE
           defining == {i \in DOMAIN v1 : /\ v1[i].kind = "Config"
                                          /\ \E x \in Config!Range(v1[i].contexts) : x.name
                                             = c.name}
<1>1. c \in Config!Context
  BY DEF Config!ChosenInv
<1>2. \E i \in DOMAIN v6 : v6[i] = c
  <2>1. Config!IsSequence(v6) /\ Len(v6) = 1 => 1 \in DOMAIN v6
    BY ConfigLength
  <2> QED
    BY <1>1, <2>1 DEF Config!Context, Config!Range, Config!ContextInv
<1> HIDE DEF c
<1>3. PICK i \in DOMAIN v6 : v6[i] = c
  BY <1>2
<1>4. PICK k \in DOMAIN v1 : Config!LastGiven(c, k)
  BY <1>3 DEF Config!ContextInv
<1>5. \A l \in DOMAIN v1 : v1[l].kind = "Config" => Config!TakenOf(l) = DOMAIN v1[l].contexts
  BY DEF Config!TakenOf
<1>6. c \in Config!Range(v1[k].contexts) /\ k \in defining /\ \A l \in defining : l <= k
  BY <1>4, <1>5 DEF Config!LastGiven, Config!TakenOf, Config!Range
<1>7. (CHOOSE l \in defining : \A j \in defining : j <= l) = k
  <2>1. defining \subseteq Nat
    BY ConfigGiven
  <2> HIDE DEF defining
  <2>2. \E l \in defining : \A j \in defining : j <= l
    BY <1>6
  <2>3. \A l \in defining : (\A j \in defining : j <= l) => l = k
    BY <1>6, <2>1
  <2> QED
    BY <2>2, <2>3
<1>8. Config!Cardinality({j \in DOMAIN v6 : v6[j].name = c.name}) = 1
  <2>1. {j \in DOMAIN v6 : v6[j].name = c.name} = {i}
    BY <1>3 DEF Config!ContextInv
  <2> QED
    BY <2>1, FS_Singleton, ConfigSizes
<1>9. ASSUME NEW kind \in {"Cluster", "Site", "Workstation"}, NEW name
      PROVE  Config!Cardinality({j \in DOMAIN v1 : v1[j].kind = kind /\ v1[j].name = name}) <= 1
  <2> DEFINE S == {j \in DOMAIN v1 : v1[j].kind = kind /\ v1[j].name = name}
  <2>1. \A l, j \in S : l = j
    BY DEF Config!IndexInv, Config!AreRead
  <2>2. S = {} \/ \E j : S = {j}
    BY <2>1
  <2> HIDE DEF S
  <2>3. S = {} => Config!Cardinality(S) <= 1
    BY FS_EmptySet, ConfigSizes
  <2>4. (\E j : S = {j}) => Config!Cardinality(S) <= 1
    <3>1. ASSUME NEW j, S = {j} PROVE Config!Cardinality(S) = 1
      BY <3>1, FS_Singleton, ConfigSizes, Zenon
    <3> QED
      BY <3>1
  <2>5. Config!Cardinality(S) <= 1
    BY <2>2, <2>3, <2>4
  <2> QED
    BY <2>5 DEF S
<1> QED
  BY <1>6, <1>7, <1>8, <1>9 DEF Config!NoneStandsIn, c

\* A step of the whole is one of the component, or of another scene.
LEMMA ConfigScene ==
  ASSUME [Next]_vars
  PROVE  /\ scene' = scene
         /\ scene = "config" => [Config!Next]_(Config!vars)
BY DEF Next, vars, Config!vars

\* The invariant of the component is one of the whole.
LEMMA ConfigAlways == Spec => [](scene = "config" => Config!Inv)
<1>1. Init => (scene = "config" => Config!Inv)
  BY ConfigBegins DEF Init, Begin
<1>2. (scene = "config" => Config!Inv) /\ [Next]_vars => (scene = "config" => Config!Inv)'
  BY ConfigScene, ConfigStep
<1> QED
  BY <1>1, <1>2, PTL DEF Spec

(***************************************************************************)
(* The bundle the server keeps.  A file was looked at before it was read   *)
(* (SeenInv), so what is kept is no older than its stamps, and a call that *)
(* looks has seen a moment between the two (KeptInv): when it finds the    *)
(* stamps as they were, what is kept is the files of that moment (GotInv). *)
(*                                                                         *)
(* The registers: v1 disk, v2 mu, v3 stamps, v4 bundle, v5 inventories, v6 *)
(* pc, v7 found, v8 looked, v9 text, v10 got, v11 answer, v12 was.         *)
(***************************************************************************)
LEMMA CacheParts == Cache!Inv
  => Cache!TypeOK /\ Cache!Values /\ Cache!SeenInv /\ Cache!KeptInv /\ Cache!GotInv
BY DEF Cache!Inv

LEMMA CacheNone ==
  /\ DOMAIN Cache!Empty = {} /\ DOMAIN Cache!NoBundle.text = {}
  /\ Cache!AllVersions(Cache!Empty) /\ Cache!AllVersions(Cache!NoBundle.text)
  /\ \A c \in OfCache.Calls : \A t : [by |-> c, text |-> t] # Cache!NoBundle
BY CommandsConstants DEF CommandsConstants, Cache!Empty, Cache!NoBundle, Cache!AllVersions, Cache!ConfigCacheConstants

\* A version that is no older than one that is no older than a third.
LEMMA CacheOlder ==
  ASSUME NEW h, NEW g, NEW k, Cache!AllVersions(h), Cache!AllVersions(g), Cache!AllVersions(k),
         DOMAIN h \cap DOMAIN k \subseteq DOMAIN g, Cache!NotOlder(h, g), Cache!NotOlder(g, k)
  PROVE  Cache!NotOlder(h, k)
<1> SUFFICES ASSUME NEW f \in DOMAIN h, f \in DOMAIN k PROVE h[f] = k[f] \/ h[f].n > k[f].n
  BY DEF Cache!NotOlder
<1>1. h[f].n \in Nat /\ g[f].n \in Nat /\ k[f].n \in Nat
  BY CommandsConstants DEF CommandsConstants, Cache!AllVersions, Cache!Versions, Cache!ConfigCacheConstants
<1>2. (h[f] = g[f] \/ h[f].n > g[f].n) /\ (g[f] = k[f] \/ g[f].n > k[f].n)
  BY DEF Cache!NotOlder
<1> QED
  BY <1>1, <1>2

\* Versions of which none is older than the other are the same.
LEMMA CacheSame ==
  ASSUME NEW h, NEW g, Cache!AllVersions(h), Cache!AllVersions(g),
         Cache!NotOlder(h, g), Cache!NotOlder(g, h)
  PROVE  \A f \in DOMAIN h \cap DOMAIN g : h[f] = g[f]
<1> SUFFICES ASSUME NEW f \in DOMAIN h \cap DOMAIN g PROVE h[f] = g[f]
  OBVIOUS
<1>1. h[f].n \in Nat /\ g[f].n \in Nat
  BY CommandsConstants DEF CommandsConstants, Cache!AllVersions, Cache!Versions, Cache!ConfigCacheConstants
<1>2. (h[f] = g[f] \/ h[f].n > g[f].n) /\ (g[f] = h[f] \/ g[f].n > h[f].n)
  BY DEF Cache!NotOlder
<1> QED
  BY <1>1, <1>2


\* A file that is edited is of a later version.
LEMMA CacheEdits ==
  ASSUME Cache!Inv, Cache!Edit
  PROVE  /\ v1' \in [OfCache.Files -> Cache!Versions]
         /\ \A h : Cache!AllVersions(h) /\ Cache!NotOlder(v1, h) => Cache!NotOlder(v1', h)
<1> USE CacheParts
<1>1. PICK f \in OfCache.Files, kind \in Cache!Kinds : /\ v1[f].n < OfCache.Edits
                                                       /\ v1' = [v1 EXCEPT ![f] = [n |-> @.n + 1,
                                                          kind |-> kind]]
  BY DEF Cache!Edit
<1>2. v1 \in [OfCache.Files -> Cache!Versions] /\ OfCache.Edits \in Nat
  BY CommandsConstants DEF CommandsConstants, Cache!TypeOK, Cache!ConfigCacheConstants
<1>3. \A g \in OfCache.Files : v1[g].n \in 0..OfCache.Edits
  BY <1>2 DEF Cache!Versions
<1>4. v1' = [g \in OfCache.Files |-> IF g = f THEN [n |-> v1[f].n + 1, kind |-> kind] ELSE v1[g]]
  BY <1>1, <1>2
<1>5. v1[f].n + 1 \in 0..OfCache.Edits
  BY <1>1, <1>2, <1>3
<1>6. [n |-> v1[f].n + 1, kind |-> kind] \in Cache!Versions
  BY <1>5 DEF Cache!Versions
<1>7. v1' \in [OfCache.Files -> Cache!Versions]
  BY <1>2, <1>4, <1>6
<1>8. \A g \in OfCache.Files : v1'[g] = v1[g] \/ v1'[g].n > v1[g].n
  <2>1. v1'[f].n = v1[f].n + 1 /\ v1[f].n \in Nat
    BY <1>2, <1>3, <1>4
  <2> QED
    BY <1>4, <2>1
<1>9. Cache!AllVersions(v1) /\ Cache!AllVersions(v1') /\ Cache!NotOlder(v1', v1)
      /\ DOMAIN v1 = OfCache.Files /\ DOMAIN v1' = OfCache.Files
  BY <1>2, <1>7, <1>8 DEF Cache!AllVersions, Cache!NotOlder
<1> QED
  BY <1>7, <1>9, CacheOlder

\* The disks a call has seen are still there once more of them are.
LEMMA CacheSees ==
  ASSUME Cache!GotInv, UNCHANGED <<v7, v10, v11>>,
         \A c \in OfCache.Calls : v6'[c] \in {"inventory", "done"} =>
           v6[c] = v6'[c] /\ v12[c] \subseteq v12'[c]
  PROVE  Cache!GotInv'
<1> SUFFICES ASSUME NEW c \in OfCache.Calls, v6'[c] \in {"inventory", "done"}
    PROVE  /\ v10[c] # Cache!NoBundle /\ DOMAIN v10[c].text = v7[c]
           /\ \A f \in v7[c] : \E d \in v12'[c] : v10[c].text[f] = d[f]
           /\ v10[c].by # c => \E d \in v12'[c] : \A f \in DOMAIN v10[c].text : v10[c].text[f] = d[f]
           /\ v6'[c] = "done" => v11[c] = Cache!Built(c) /\ Cache!Buildable(v10[c])
  BY DEF Cache!GotInv, Cache!AtOneMoment, Cache!Built, Cache!Buildable
<1>1. v6[c] = v6'[c] /\ v12[c] \subseteq v12'[c]
  OBVIOUS
<1> QED
  BY <1>1 DEF Cache!GotInv, Cache!AtOneMoment


LEMMA CacheEdit ==
  ASSUME Cache!Inv, Cache!Edit PROVE Cache!Inv'
<1> USE CacheParts
<1>1. UNCHANGED <<v2, v3, v4, v5, v6, v7, v8, v9, v10, v11>>
  BY DEF Cache!Edit, Cache!cache
<1>2. Cache!TypeOK'
  BY <1>1, CacheEdits DEF Cache!TypeOK
<1>3. v12' = [c \in OfCache.Calls |-> IF Cache!Came(c) THEN v12[c] \cup {v1'} ELSE v12[c]]
  BY DEF Cache!Edit
<1>4. \A c \in OfCache.Calls : /\ v12[c] \subseteq v12'[c]
                               /\ \A d \in v12'[c] : d \in v12[c] \/ d = v1'
                               /\ Cache!Came(c) => v1' \in v12'[c]
  BY <1>3
<1>5. \A c \in OfCache.Calls : v12[c] \subseteq [OfCache.Files -> Cache!Versions]
  BY DEF Cache!Values
<1>6. Cache!Values'
  <2>1. \A c \in OfCache.Calls : v12'[c] \subseteq [OfCache.Files -> Cache!Versions]
    BY <1>4, <1>5, CacheEdits
  <2>2. v12' \in [OfCache.Calls -> SUBSET [OfCache.Files -> Cache!Versions]]
    BY <1>3, <2>1
  <2> QED
    BY <1>1, <2>2 DEF Cache!Values
<1>7. Cache!SeenInv'
  <2>1. ASSUME NEW c \in OfCache.Calls
        PROVE  /\ \A d \in v12'[c] : Cache!NotOlder(v1', d)
               /\ Cache!NotOlder(v1', v8[c]) /\ Cache!NotOlder(v1', v9[c])
    <3>1. Cache!NotOlder(v1', v8[c]) /\ Cache!NotOlder(v1', v9[c])
      <4>1. Cache!AllVersions(v8[c]) /\ Cache!AllVersions(v9[c])
        BY DEF Cache!Values
      <4>2. Cache!NotOlder(v1, v8[c]) /\ Cache!NotOlder(v1, v9[c])
        BY DEF Cache!SeenInv
      <4> QED
        BY <4>1, <4>2, CacheEdits
    <3>2. Cache!NotOlder(v1', v1')
      BY DEF Cache!NotOlder
    <3>3. \A d \in v12[c] : Cache!AllVersions(d) /\ Cache!NotOlder(v1, d)
      BY <1>5 DEF Cache!SeenInv, Cache!AllVersions
    <3> QED
      BY <1>4, <3>1, <3>2, <3>3, CacheEdits
  <2>2. ASSUME NEW c \in OfCache.Calls
        PROVE  /\ v6'[c] \notin {"idle", "done", "refused"} => v1' \in v12'[c]
               /\ \A f \in DOMAIN v9[c] : \E d \in v12'[c] : v9[c][f] = d[f]
    BY <1>1, <1>4 DEF Cache!SeenInv, Cache!Came
  <2> QED
    BY <1>1, <2>1, <2>2 DEF Cache!SeenInv, Cache!Came
<1>8. Cache!KeptInv'
  <2> SUFFICES ASSUME v4 # Cache!NoBundle PROVE Cache!KeptInv'
    BY <1>1 DEF Cache!KeptInv
  <2>1. Cache!NotOlder(v1', v4.text)
    BY CacheEdits DEF Cache!KeptInv, Cache!Values
  <2>2. ASSUME NEW c \in OfCache.Calls, v6[c] = "look"
        PROVE  \E d \in v12'[c] : Cache!NotOlder(d, v4.text) /\ Cache!NotOlder(v8[c], d)
    BY <1>4, <2>2 DEF Cache!KeptInv
  <2> QED
    BY <1>1, <2>1, <2>2 DEF Cache!KeptInv, Cache!Buildable
<1>9. Cache!GotInv'
  BY <1>1, <1>4, CacheSees
<1> QED
  BY <1>2, <1>6, <1>7, <1>8, <1>9 DEF Cache!Inv


LEMMA CacheBegins == Cache!Init => Cache!Inv
<1> SUFFICES ASSUME Cache!Init PROVE Cache!Inv
  OBVIOUS
<1>1. v1 \in [OfCache.Files -> Cache!Versions] /\ v12 = [c \in OfCache.Calls |-> {}]
  BY CommandsConstants DEF CommandsConstants, Cache!Init, Cache!Versions, Cache!Kinds, Cache!ConfigCacheConstants
<1>2. Cache!TypeOK
  BY <1>1, CacheNone, CommandsConstants DEF Cache!Init, Cache!TypeOK, Cache!ConfigCacheConstants,
     Cache!Reading
<1>3. Cache!Values
  BY <1>1, CacheNone DEF Cache!Init, Cache!Values
<1>4. Cache!SeenInv
  BY <1>1, CacheNone DEF Cache!Init, Cache!SeenInv, Cache!NotOlder, Cache!Came
<1>5. Cache!KeptInv /\ Cache!GotInv
  BY DEF Cache!Init, Cache!KeptInv, Cache!GotInv
<1> QED
  BY <1>2, <1>3, <1>4, <1>5 DEF Cache!Inv


LEMMA CacheFind ==
  ASSUME Cache!Inv, NEW c \in OfCache.Calls, Cache!Find(c) PROVE Cache!Inv'
<1> USE CacheParts
<1>1. /\ v6[c] = "idle" /\ v12' = [v12 EXCEPT ![c] = {v1}]
      /\ \/ v6' = [v6 EXCEPT ![c] = "load"] /\ v7' = [v7 EXCEPT ![c] = Cache!There]
         \/ v6' = [v6 EXCEPT ![c] = "refused"] /\ v7' = v7
      /\ UNCHANGED <<v1, v2, v3, v4, v5, v8, v9, v10, v11>>
  BY DEF Cache!Find, Cache!Go, Cache!cache
<1>2. DOMAIN v8[c] = {} /\ DOMAIN v9[c] = {} /\ v1 \in [OfCache.Files -> Cache!Versions]
  BY <1>1 DEF Cache!SeenInv, Cache!TypeOK
<1>3. Cache!TypeOK'
  BY <1>1, <1>2 DEF Cache!TypeOK, Cache!There, Cache!Reading
<1>4. Cache!Values'
  <2>1. v12' \in [OfCache.Calls -> SUBSET [OfCache.Files -> Cache!Versions]]
    BY <1>1, <1>2 DEF Cache!Values
  <2> QED
    BY <1>1, <2>1 DEF Cache!Values
<1>5. /\ v12'[c] = {v1} /\ v6'[c] \in {"load", "refused"}
      /\ \A e \in OfCache.Calls \ {c} : v12'[e] = v12[e] /\ v6'[e] = v6[e] /\ v7'[e] = v7[e]
  BY <1>1 DEF Cache!Values, Cache!TypeOK
<1>6. Cache!SeenInv'
  <2>1. \A e \in OfCache.Calls \ {c} : /\ v6'[e] = v6[e] /\ v12'[e] = v12[e] /\ v7'[e] = v7[e]
                                       /\ v8'[e] = v8[e] /\ v9'[e] = v9[e]
    BY <1>1, <1>5
  <2>2. Cache!NotOlder(v9[c], v8[c]) /\ Cache!NotOlder(v1, v8[c]) /\ Cache!NotOlder(v1, v9[c])
        /\ Cache!NotOlder(v1, v1)
    BY <1>2 DEF Cache!NotOlder
  <2> QED
    BY <1>1, <1>2, <1>5, <2>1, <2>2 DEF Cache!SeenInv, Cache!NotOlder, Cache!Came
<1>7. Cache!KeptInv'
  BY <1>1, <1>5 DEF Cache!KeptInv, Cache!Buildable
<1>8. Cache!GotInv'
  BY <1>1, <1>5 DEF Cache!GotInv, Cache!Built, Cache!Buildable, Cache!AtOneMoment
<1> QED
  BY <1>3, <1>4, <1>6, <1>7, <1>8 DEF Cache!Inv


LEMMA CacheEnter ==
  ASSUME Cache!Inv, NEW c \in OfCache.Calls, Cache!Enter(c) PROVE Cache!Inv'
<1> USE CacheParts
<1>1. /\ v6[c] = "load" /\ v2 = Cache!Nobody /\ v2' = c /\ v6' = [v6 EXCEPT ![c] = "look"]
      /\ UNCHANGED <<v1, v3, v4, v5, v7, v8, v9, v10, v11, v12>>
  BY DEF Cache!Enter, Cache!Go, Cache!cache
<1>2. Cache!TypeOK'
  BY <1>1, CommandsConstants DEF Cache!TypeOK, Cache!Reading, Cache!ConfigCacheConstants
<1>3. Cache!Values'
  BY <1>1 DEF Cache!Values
<1>4. v6'[c] = "look" /\ \A e \in OfCache.Calls \ {c} : v6'[e] = v6[e]
  BY <1>1 DEF Cache!TypeOK
<1>5. Cache!SeenInv'
  BY <1>1, <1>4 DEF Cache!SeenInv, Cache!Came
<1>6. v1 \in v12[c] /\ Cache!NotOlder(v8[c], v1)
  BY <1>1 DEF Cache!SeenInv, Cache!Came, Cache!NotOlder
<1>7. Cache!KeptInv'
  <2> SUFFICES ASSUME v4 # Cache!NoBundle PROVE Cache!KeptInv'
    BY <1>1 DEF Cache!KeptInv
  <2>1. Cache!NotOlder(v1, v4.text)
    BY DEF Cache!KeptInv
  <2>2. ASSUME NEW e \in OfCache.Calls, v6'[e] = "look"
        PROVE  \E d \in v12[e] : Cache!NotOlder(d, v4.text) /\ Cache!NotOlder(v8[e], d)
    BY <1>4, <1>6, <2>1, <2>2 DEF Cache!KeptInv
  <2> QED
    BY <1>1, <2>1, <2>2 DEF Cache!KeptInv, Cache!Buildable
<1>8. Cache!GotInv'
  BY <1>1, <1>4, CacheSees
<1> QED
  BY <1>2, <1>3, <1>5, <1>7, <1>8 DEF Cache!Inv


LEMMA CacheLook ==
  ASSUME Cache!Inv, NEW c \in OfCache.Calls, Cache!Look(c) PROVE Cache!Inv'
<1> USE CacheParts
<1>0. v6[c] = "look" /\ UNCHANGED <<v1, v2, v7, v9, v10, v11, v12>>
  BY DEF Cache!Look
<1>1. PICK f \in v7[c] \ DOMAIN v8[c] :
        IF v1[f].kind # "gone"
          THEN v8' = [v8 EXCEPT ![c] = Cache!Put(@, f, v1[f])] /\ UNCHANGED <<v6, Cache!cache>>
          ELSE v4' = Cache!NoBundle /\ Cache!Go(c, "read_unkept") /\ UNCHANGED <<v8, v3, v5>>
  BY DEF Cache!Look
<1>2. f \in OfCache.Files /\ v1[f] \in Cache!Versions /\ v1 \in [OfCache.Files -> Cache!Versions]
  BY DEF Cache!TypeOK
<1>3. DOMAIN v8 = OfCache.Calls /\ DOMAIN v6 = OfCache.Calls /\ DOMAIN v9[c] = {}
  BY <1>0 DEF Cache!Values, Cache!TypeOK, Cache!SeenInv
<1>4. CASE v1[f].kind # "gone"
  <2>1. v8' = [v8 EXCEPT ![c] = Cache!Put(v8[c], f, v1[f])] /\ UNCHANGED <<v6, v3, v4, v5>>
    BY <1>1, <1>4 DEF Cache!cache
  <2>2. v8'[c] = Cache!Put(v8[c], f, v1[f]) /\ \A e \in OfCache.Calls \ {c} : v8'[e] = v8[e]
    BY <1>3, <2>1
  <2>3. DOMAIN v8'[c] = DOMAIN v8[c] \cup {f} /\ Cache!AllVersions(v8'[c]) /\ v8'[c][f] = v1[f]
        /\ \A g \in DOMAIN v8[c] : g # f => v8'[c][g] = v8[c][g]
    <3> DEFINE h == v8[c]
               d == v1[f]
    <3>1. Cache!AllVersions(h) /\ d \in Cache!Versions /\ v8'[c] = Cache!Put(h, f, d)
      BY <1>2, <2>2 DEF Cache!Values
    <3> HIDE DEF h, d
    <3>2. /\ DOMAIN Cache!Put(h, f, d) = DOMAIN h \cup {f} /\ Cache!Put(h, f, d)[f] = d
          /\ \A g \in DOMAIN h : g # f => Cache!Put(h, f, d)[g] = h[g]
      BY DEF Cache!Put
    <3>3. Cache!AllVersions(Cache!Put(h, f, d))
      BY <3>1 DEF Cache!Put, Cache!AllVersions
    <3> QED
      BY <3>1, <3>2, <3>3 DEF h, d
  <2>4. Cache!TypeOK'
    BY <1>0, <2>1, <2>2, <2>3 DEF Cache!TypeOK
  <2>5. Cache!Values'
    BY <1>0, <1>3, <2>1, <2>2, <2>3 DEF Cache!Values
  <2>6. \A d \in v12[c] : Cache!NotOlder(v8[c], d) => Cache!NotOlder(v8'[c], d)
    <3>1. \A d \in v12[c] : Cache!NotOlder(v1, d)
      BY DEF Cache!SeenInv
    <3> QED
      BY <1>2, <2>3, <3>1 DEF Cache!NotOlder
  <2>7. Cache!NotOlder(v1, v8'[c]) /\ Cache!NotOlder(v9[c], v8'[c])
    <3>1. Cache!NotOlder(v1, v8[c])
      BY DEF Cache!SeenInv
    <3> QED
      BY <1>3, <2>3, <3>1 DEF Cache!NotOlder
  <2>8. Cache!SeenInv'
    BY <1>0, <2>1, <2>2, <2>7 DEF Cache!SeenInv, Cache!Came
  <2>9. Cache!KeptInv'
    <3> SUFFICES ASSUME v4 # Cache!NoBundle PROVE Cache!KeptInv'
      BY <2>1 DEF Cache!KeptInv
    <3>1. ASSUME NEW e \in OfCache.Calls, v6[e] = "look"
          PROVE  \E d \in v12[e] : Cache!NotOlder(d, v4.text) /\ Cache!NotOlder(v8'[e], d)
      <4>1. PICK d \in v12[e] : Cache!NotOlder(d, v4.text) /\ Cache!NotOlder(v8[e], d)
        BY <3>1 DEF Cache!KeptInv
      <4>2. Cache!NotOlder(v8'[e], d)
        BY <2>2, <2>6, <4>1
      <4> QED
        BY <4>1, <4>2
    <3> QED
      BY <1>0, <2>1, <3>1 DEF Cache!KeptInv, Cache!Buildable
  <2>10. Cache!GotInv'
    BY <1>0, <2>1, CacheSees
  <2> QED
    BY <2>4, <2>5, <2>8, <2>9, <2>10 DEF Cache!Inv
<1>5. CASE ~(v1[f].kind # "gone")
  <2>1. v4' = Cache!NoBundle /\ v6' = [v6 EXCEPT ![c] = "read_unkept"] /\ UNCHANGED <<v8, v3, v5>>
    BY <1>1, <1>5 DEF Cache!Go
  <2>2. v6'[c] = "read_unkept" /\ \A e \in OfCache.Calls \ {c} : v6'[e] = v6[e]
    BY <1>3, <2>1
  <2>3. Cache!TypeOK'
    BY <1>0, <2>1, <2>2 DEF Cache!TypeOK, Cache!Reading
  <2>4. Cache!Values'
    BY <1>0, <2>1, CacheNone DEF Cache!Values
  <2>5. Cache!SeenInv'
    BY <1>0, <2>1, <2>2 DEF Cache!SeenInv, Cache!Came
  <2>6. Cache!KeptInv' /\ Cache!GotInv'
    BY <1>0, <2>1, <2>2, CacheSees DEF Cache!KeptInv
  <2> QED
    BY <2>3, <2>4, <2>5, <2>6 DEF Cache!Inv
<1> QED
  BY <1>4, <1>5

LEMMA CacheCompare ==
  ASSUME Cache!Inv, NEW c \in OfCache.Calls, Cache!Compare(c) PROVE Cache!Inv'
<1> USE CacheParts
<1>0. /\ v6[c] = "look" /\ DOMAIN v8[c] = v7[c]
      /\ UNCHANGED <<v1, v3, v4, v5, v7, v8, v9, v11, v12>>
  BY DEF Cache!Compare, Cache!cache
<1>1. DOMAIN v10 = OfCache.Calls /\ DOMAIN v6 = OfCache.Calls /\ Cache!AllVersions(v4.text)
      /\ v2 = c /\ v12[c] \subseteq [OfCache.Files -> Cache!Versions]
      /\ Cache!AllVersions(v8[c]) /\ Cache!Nobody \notin OfCache.Calls
  BY <1>0, CommandsConstants DEF Cache!Values, Cache!TypeOK, Cache!AllVersions,
     Cache!ConfigCacheConstants
<1>2. CASE v4 # Cache!NoBundle /\ v3 = v8[c]
  <2>1. v10' = [v10 EXCEPT ![c] = v4] /\ v2' = Cache!Nobody /\ v6' = [v6 EXCEPT ![c] = "inventory"]
    BY <1>2 DEF Cache!Compare, Cache!Unlock, Cache!Go
  <2>2. /\ v10'[c] = v4 /\ v6'[c] = "inventory"
        /\ \A e \in OfCache.Calls \ {c} : v6'[e] = v6[e] /\ v10'[e] = v10[e]
    BY <1>1, <2>1
  <2>3. Cache!TypeOK'
    BY <1>0, <1>1, <2>1, <2>2 DEF Cache!TypeOK, Cache!Reading
  <2>4. Cache!Values'
    BY <1>0, <1>1, <2>1, <2>2 DEF Cache!Values
  <2>5. Cache!SeenInv'
    BY <1>0, <2>2 DEF Cache!SeenInv, Cache!Came
  <2>6. DOMAIN v4.text = v7[c] /\ Cache!NotOlder(v4.text, v8[c])
    BY <1>0, <1>2 DEF Cache!KeptInv
  <2>7. PICK d \in v12[c] : Cache!NotOlder(d, v4.text) /\ Cache!NotOlder(v8[c], d)
    BY <1>0, <1>2 DEF Cache!KeptInv
  <2>8. \A f \in v7[c] : v4.text[f] = d[f]
    <3>1. Cache!AllVersions(d) /\ DOMAIN d = OfCache.Files /\ v7[c] \subseteq OfCache.Files
      BY <1>1 DEF Cache!AllVersions, Cache!TypeOK
    <3>2. Cache!NotOlder(v4.text, d)
      BY <1>0, <1>1, <2>6, <2>7, <3>1, CacheOlder
    <3> QED
      BY <1>1, <2>6, <2>7, <3>1, <3>2, CacheSame
  <2>9. Cache!KeptInv'
    BY <1>0, <2>2 DEF Cache!KeptInv, Cache!Buildable
  <2>10. Cache!GotInv'
    <3>1. Cache!AtOneMoment(c, v4.text) /\ \A f \in v7[c] : \E m \in v12[c] : v4.text[f] = m[f]
      BY <2>6, <2>8 DEF Cache!AtOneMoment
    <3> QED
      BY <1>0, <1>2, <2>2, <2>6, <3>1 DEF Cache!GotInv, Cache!Built, Cache!Buildable,
         Cache!AtOneMoment
  <2> QED
    BY <2>3, <2>4, <2>5, <2>9, <2>10 DEF Cache!Inv
<1>3. CASE ~(v4 # Cache!NoBundle /\ v3 = v8[c])
  <2>1. v10' = v10 /\ v2' = v2 /\ v6' = [v6 EXCEPT ![c] = "read"]
    BY <1>3 DEF Cache!Compare, Cache!Go
  <2>2. v6'[c] = "read" /\ \A e \in OfCache.Calls \ {c} : v6'[e] = v6[e]
    BY <1>1, <2>1
  <2>3. Cache!TypeOK'
    BY <1>0, <1>1, <2>1, <2>2 DEF Cache!TypeOK, Cache!Reading
  <2>4. Cache!Values'
    BY <1>0, <2>1 DEF Cache!Values
  <2>5. Cache!SeenInv'
    BY <1>0, <2>2 DEF Cache!SeenInv, Cache!Came
  <2>6. Cache!KeptInv'
    BY <1>0, <2>2 DEF Cache!KeptInv, Cache!Buildable
  <2>7. Cache!GotInv'
    BY <1>0, <2>1, <2>2, CacheSees
  <2> QED
    BY <2>3, <2>4, <2>5, <2>6, <2>7 DEF Cache!Inv
<1> QED
  BY <1>2, <1>3

LEMMA CacheRead ==
  ASSUME Cache!Inv, NEW c \in OfCache.Calls, Cache!Read(c) PROVE Cache!Inv'
<1> USE CacheParts
<1>0. v6[c] \in Cache!Reading /\ UNCHANGED <<v1, v3, v5, v7, v8, v10, v11, v12>>
  BY DEF Cache!Read
<1>1. PICK f \in v7[c] \ DOMAIN v9[c] :
       IF v1[f].kind \notin {"gone", "unreadable"}
         THEN v9' = [v9 EXCEPT ![c] = Cache!Put(@, f, v1[f])] /\ UNCHANGED <<v2, v6, v4>>
         ELSE v4' = Cache!NoBundle /\ Cache!Unlock /\ Cache!Go(c, "refused") /\ UNCHANGED v9
  BY DEF Cache!Read
<1>2. f \in OfCache.Files /\ v1[f] \in Cache!Versions /\ v1 \in [OfCache.Files -> Cache!Versions]
  BY DEF Cache!TypeOK
<1>3. DOMAIN v9 = OfCache.Calls /\ DOMAIN v6 = OfCache.Calls /\ v2 = c
      /\ v1 \in v12[c] /\ Cache!Nobody \notin OfCache.Calls
  BY <1>0, CommandsConstants DEF Cache!Values, Cache!TypeOK, Cache!ConfigCacheConstants,
     Cache!SeenInv, Cache!Came, Cache!Reading
<1>4. CASE v1[f].kind \notin {"gone", "unreadable"}
  <2>1. v9' = [v9 EXCEPT ![c] = Cache!Put(v9[c], f, v1[f])] /\ UNCHANGED <<v2, v6, v4>>
    BY <1>1, <1>4
  <2>2. v9'[c] = Cache!Put(v9[c], f, v1[f]) /\ \A e \in OfCache.Calls \ {c} : v9'[e] = v9[e]
    BY <1>3, <2>1
  <2>3. DOMAIN v9'[c] = DOMAIN v9[c] \cup {f} /\ Cache!AllVersions(v9'[c]) /\ v9'[c][f] = v1[f]
        /\ \A g \in DOMAIN v9[c] : g # f => v9'[c][g] = v9[c][g]
    <3> DEFINE h == v9[c]
               d == v1[f]
    <3>1. Cache!AllVersions(h) /\ d \in Cache!Versions /\ v9'[c] = Cache!Put(h, f, d)
      BY <1>2, <2>2 DEF Cache!Values
    <3> HIDE DEF h, d
    <3>2. /\ DOMAIN Cache!Put(h, f, d) = DOMAIN h \cup {f} /\ Cache!Put(h, f, d)[f] = d
          /\ \A g \in DOMAIN h : g # f => Cache!Put(h, f, d)[g] = h[g]
      BY DEF Cache!Put
    <3>3. Cache!AllVersions(Cache!Put(h, f, d))
      BY <3>1 DEF Cache!Put, Cache!AllVersions
    <3> QED
      BY <3>1, <3>2, <3>3 DEF h, d
  <2>4. Cache!TypeOK'
    BY <1>0, <2>1, <2>2, <2>3 DEF Cache!TypeOK
  <2>5. Cache!Values'
    BY <1>0, <1>3, <2>1, <2>2, <2>3 DEF Cache!Values
  <2>6. Cache!NotOlder(v9'[c], v8[c]) /\ Cache!NotOlder(v1, v9'[c])
    <3>1. Cache!NotOlder(v9[c], v8[c]) /\ Cache!NotOlder(v1, v8[c]) /\ Cache!NotOlder(v1, v9[c])
      BY DEF Cache!SeenInv
    <3> QED
      BY <1>2, <2>3, <3>1 DEF Cache!NotOlder
  <2>7. \A g \in DOMAIN v9'[c] : \E d \in v12[c] : v9'[c][g] = d[g]
    BY <1>3, <2>3 DEF Cache!SeenInv
  <2>8. Cache!SeenInv'
    BY <1>0, <2>1, <2>2, <2>6, <2>7 DEF Cache!SeenInv, Cache!Reading, Cache!Came
  <2>9. Cache!KeptInv' /\ Cache!GotInv'
    BY <1>0, <2>1, CacheSees DEF Cache!KeptInv, Cache!Buildable
  <2> QED
    BY <2>4, <2>5, <2>8, <2>9 DEF Cache!Inv
<1>5. CASE ~(v1[f].kind \notin {"gone", "unreadable"})
  <2>1. v4' = Cache!NoBundle /\ v2' = Cache!Nobody /\ v6' = [v6 EXCEPT ![c] = "refused"] /\ v9' = v9
    BY <1>1, <1>5 DEF Cache!Go, Cache!Unlock
  <2>2. v6'[c] = "refused" /\ \A e \in OfCache.Calls \ {c} : v6'[e] = v6[e]
    BY <1>3, <2>1
  <2>3. Cache!TypeOK'
    BY <1>0, <1>3, <2>1, <2>2 DEF Cache!TypeOK, Cache!Reading
  <2>4. Cache!Values'
    BY <1>0, <2>1, CacheNone DEF Cache!Values
  <2>5. Cache!SeenInv'
    BY <1>0, <2>1, <2>2 DEF Cache!SeenInv, Cache!Reading, Cache!Came
  <2>6. Cache!KeptInv' /\ Cache!GotInv'
    BY <1>0, <2>1, <2>2, CacheSees DEF Cache!KeptInv
  <2> QED
    BY <2>3, <2>4, <2>5, <2>6 DEF Cache!Inv
<1> QED
  BY <1>4, <1>5

LEMMA CacheKeep ==
  ASSUME Cache!Inv, NEW c \in OfCache.Calls, Cache!Keep(c) PROVE Cache!Inv'
<1> USE CacheParts
<1> DEFINE b == [by |-> c, text |-> v9[c]]
<1>0. /\ v6[c] \in Cache!Reading /\ DOMAIN v9[c] = v7[c]
      /\ v10' = [v10 EXCEPT ![c] = b] /\ v2' = Cache!Nobody /\ v6' = [v6 EXCEPT ![c] = "inventory"]
      /\ UNCHANGED <<v1, v7, v8, v9, v11, v12>>
      /\ \/ v6[c] = "read" /\ v3' = v8[c] /\ v4' = b /\ v5' = Cache!Empty
         \/ UNCHANGED <<v3, v4, v5>>
  BY DEF Cache!Keep, Cache!Stamped, Cache!Unlock, Cache!Go, Cache!cache
<1>1. DOMAIN v10 = OfCache.Calls /\ DOMAIN v6 = OfCache.Calls /\ v2 = c
      /\ Cache!Nobody \notin OfCache.Calls
      /\ Cache!AllVersions(v9[c]) /\ Cache!AllVersions(v8[c])
  BY <1>0, CommandsConstants DEF Cache!Values, Cache!TypeOK, Cache!ConfigCacheConstants
<1>2. b # Cache!NoBundle /\ b.text = v9[c] /\ b.by = c
  BY CacheNone
<1>3. /\ Cache!NotOlder(v9[c], v8[c]) /\ Cache!NotOlder(v1, v9[c])
      /\ (v6[c] = "read" => DOMAIN v8[c] = v7[c]) /\ v7[c] \subseteq OfCache.Files
      /\ \A f \in v7[c] : \E d \in v12[c] : v9[c][f] = d[f]
      /\ \A e \in OfCache.Calls \ {c} : v6[e] # "look"
  BY <1>0, <1>1 DEF Cache!SeenInv, Cache!TypeOK
<1> HIDE DEF b
<1>4. /\ v10'[c] = b /\ v6'[c] = "inventory"
      /\ \A e \in OfCache.Calls \ {c} : v6'[e] = v6[e] /\ v10'[e] = v10[e]
  BY <1>0, <1>1
<1>5. Cache!TypeOK'
  BY <1>0, <1>1, <1>4 DEF Cache!TypeOK, Cache!Reading
<1>6. Cache!Values'
  BY <1>0, <1>1, <1>2, <1>3, <1>4, CacheNone DEF Cache!Values
<1>7. Cache!SeenInv'
  BY <1>0, <1>4 DEF Cache!SeenInv, Cache!Reading, Cache!Came
<1>8. Cache!KeptInv'
  BY <1>0, <1>2, <1>3, <1>4, CacheNone DEF Cache!KeptInv, Cache!Buildable
<1>9. Cache!GotInv'
  BY <1>0, <1>2, <1>3, <1>4 DEF Cache!GotInv, Cache!Built, Cache!Buildable, Cache!AtOneMoment
<1> QED
  BY <1>5, <1>6, <1>7, <1>8, <1>9 DEF Cache!Inv

LEMMA CacheInventory ==
  ASSUME Cache!Inv, NEW c \in OfCache.Calls, Cache!Inventory(c) PROVE Cache!Inv'
<1> USE CacheParts
<1>0. /\ v6[c] = "inventory" /\ v2 = Cache!Nobody
      /\ UNCHANGED <<v1, v2, v3, v4, v7, v8, v9, v10, v12>>
  BY DEF Cache!Inventory, Cache!cache
<1>1. DOMAIN v11 = OfCache.Calls /\ DOMAIN v6 = OfCache.Calls /\ v10[c] # Cache!NoBundle
  BY <1>0 DEF Cache!Values, Cache!TypeOK, Cache!GotInv
<1>2. CASE v6' = [v6 EXCEPT ![c] = "refused"] /\ UNCHANGED <<v11, v5>>
  <2>1. v6'[c] = "refused" /\ \A e \in OfCache.Calls \ {c} : v6'[e] = v6[e]
    BY <1>1, <1>2
  <2>2. Cache!TypeOK'
    BY <1>0, <1>2, <2>1 DEF Cache!TypeOK, Cache!Reading
  <2>3. Cache!Values' /\ Cache!KeptInv'
    BY <1>0, <1>2, <2>1 DEF Cache!Values, Cache!KeptInv, Cache!Buildable
  <2>4. Cache!SeenInv' /\ Cache!GotInv'
    BY <1>0, <1>2, <2>1, CacheSees DEF Cache!SeenInv, Cache!Came
  <2> QED
    BY <2>2, <2>3, <2>4 DEF Cache!Inv
<1>3. CASE /\ v6' = [v6 EXCEPT ![c] = "done"] /\ v11' = [v11 EXCEPT ![c] = Cache!Built(c)]
           /\ Cache!Buildable(v10[c])
           /\ \/ v5' = v5
              \/ v4 = v10[c] /\ v5' = Cache!Put(v5, OfCache.ClusterOf[c], Cache!Built(c))
  <2>1. /\ v6'[c] = "done" /\ v11'[c] = Cache!Built(c)
        /\ \A e \in OfCache.Calls \ {c} : v6'[e] = v6[e] /\ v11'[e] = v11[e]
    BY <1>1, <1>3
  <2>2. Cache!TypeOK'
    BY <1>0, <1>3, <2>1 DEF Cache!TypeOK, Cache!Reading
  <2>3. Cache!Values'
    BY <1>0, <1>3 DEF Cache!Values
  <2>4. Cache!SeenInv'
    BY <1>0, <2>1 DEF Cache!SeenInv, Cache!Came
  <2>5. Cache!GotInv'
    BY <1>0, <1>3, <2>1 DEF Cache!GotInv, Cache!Built, Cache!Buildable, Cache!AtOneMoment
  <2>6. Cache!KeptInv'
    <3>1. CASE v5' = v5
      BY <1>0, <2>1, <3>1 DEF Cache!KeptInv, Cache!Buildable
    <3>2. CASE v4 = v10[c] /\ v5' = Cache!Put(v5, OfCache.ClusterOf[c], Cache!Built(c))
      <4> DEFINE k == OfCache.ClusterOf[c]
      <4>1. /\ DOMAIN v5' = DOMAIN v5 \cup {k} /\ v5'[k] = [of |-> v4, cluster |-> k]
            /\ \A j \in DOMAIN v5 : j # k => v5'[j] = v5[j]
        <5> DEFINE i == v5
                   b == Cache!Built(c)
        <5>1. v5' = Cache!Put(i, k, b) /\ b = [of |-> v4, cluster |-> k]
          BY <3>2 DEF Cache!Built
        <5> HIDE DEF i, k, b
        <5>2. /\ DOMAIN Cache!Put(i, k, b) = DOMAIN i \cup {k} /\ Cache!Put(i, k, b)[k] = b
              /\ \A j \in DOMAIN i : j # k => Cache!Put(i, k, b)[j] = i[j]
          BY DEF Cache!Put
        <5> QED
          BY <5>1, <5>2 DEF i
      <4> HIDE DEF k
      <4>2. Cache!Buildable(v4)
        BY <1>3, <3>2
      <4> QED
        BY <1>0, <2>1, <4>1, <4>2 DEF Cache!KeptInv, Cache!Buildable
    <3> QED
      BY <1>3, <3>1, <3>2
  <2> QED
    BY <2>2, <2>3, <2>4, <2>5, <2>6 DEF Cache!Inv
<1>4. CASE Cache!KeptFor(c)
  <2>1. /\ v6' = [v6 EXCEPT ![c] = "done"] /\ v11' = [v11 EXCEPT ![c] = v5[OfCache.ClusterOf[c]]]
        /\ v5' = v5
    BY <1>4 DEF Cache!Inventory, Cache!Go, Cache!cache
  <2>2. v5[OfCache.ClusterOf[c]] = Cache!Built(c) /\ Cache!Buildable(v10[c])
    BY <1>1, <1>4 DEF Cache!KeptFor, Cache!KeptInv, Cache!Built
  <2> QED
    BY <1>3, <2>1, <2>2
<1>5. CASE ~Cache!KeptFor(c)
  BY <1>2, <1>3, <1>5 DEF Cache!Inventory, Cache!Go, Cache!cache
<1> QED
  BY <1>4, <1>5

LEMMA CacheStep == Cache!Inv /\ [Cache!Next]_(Cache!vars) => Cache!Inv'
<1> SUFFICES ASSUME Cache!Inv, [Cache!Next]_(Cache!vars) PROVE Cache!Inv'
  OBVIOUS
<1>1. CASE Cache!Edit
  BY <1>1, CacheEdit
<1>2. CASE \E c \in OfCache.Calls : Cache!Find(c) \/ Cache!Enter(c) \/ Cache!Look(c)
           \/ Cache!Compare(c) \/ Cache!Read(c) \/ Cache!Keep(c) \/ Cache!Inventory(c)
  BY <1>2, CacheFind, CacheEnter, CacheLook, CacheCompare, CacheRead, CacheKeep, CacheInventory
<1>3. CASE UNCHANGED Cache!vars
  <2>1. UNCHANGED <<v1, v2, v3, v4, v5, v6, v7, v8, v9, v10, v11, v12>>
    BY <1>3 DEF Cache!vars
  <2>2. Cache!TypeOK' /\ Cache!Values' /\ Cache!SeenInv'
    BY <2>1, CacheParts DEF Cache!TypeOK, Cache!Values, Cache!SeenInv, Cache!Came
  <2>3. Cache!KeptInv' /\ Cache!GotInv'
    BY <2>1, CacheParts, CacheSees DEF Cache!KeptInv, Cache!Buildable
  <2> QED
    BY <2>2, <2>3 DEF Cache!Inv
<1> QED
  BY <1>1, <1>2, <1>3 DEF Cache!Next, Cache!Stay

LEMMA CacheKeeps == Cache!Inv => Cache!CallSeesItsFiles
BY CacheParts DEF Cache!CallSeesItsFiles, Cache!GotInv


\* A step of the whole is one of the component, or of another scene.
LEMMA CacheScene ==
  ASSUME [Next]_vars
  PROVE  /\ scene' = scene
         /\ scene = "cache" => [Cache!Next]_(Cache!vars)
BY DEF Next, vars, Cache!vars

\* The invariant of the component is one of the whole.
LEMMA CacheAlways == Spec => [](scene = "cache" => Cache!Inv)
<1>1. Init => (scene = "cache" => Cache!Inv)
  BY CacheBegins DEF Init, Begin
<1>2. (scene = "cache" => Cache!Inv) /\ [Next]_vars => (scene = "cache" => Cache!Inv)'
  BY CacheScene, CacheStep
<1> QED
  BY <1>1, <1>2, PTL DEF Spec

\* Whatever the files say, in whatever order they are read, and whoever edits
\* them meanwhile: of the layers the last one that sets a value decides it and is
\* the one that is named, no document stands in for another, and a call of the
\* server runs with each file as it was at some moment since it came, with all of
\* them as they were at one moment when it is served what another call read.
\* (Load, Resolve, mergeValue, Cache)
THEOREM ConfigurationIsAsWritten == Spec => []ConfigIsAsWritten
<1>1. (scene = "config" => Config!Inv) /\ (scene = "cache" => Cache!Inv) => ConfigIsAsWritten
  BY ConfigKeeps, CacheKeeps DEF ConfigIsAsWritten
<1> QED
  BY <1>1, ConfigAlways, CacheAlways, PTL
=============================================================================
