---------------------------- MODULE Configuration ----------------------------
(***************************************************************************)
(* The configuration one command runs against: the documents of the files, *)
(* indexed by kind and name, the contexts of the Config documents folded   *)
(* into one list, and the layers of the context that is selected merged    *)
(* leaf by leaf into one tree, with the layer every value came from.       *)
(* A path is the sequence of its keys; a mapping is the leaves below it.   *)
(***************************************************************************)
EXTENDS Naturals, Sequences, FiniteSets, SequencesExt

CONSTANTS
  Trees,        \* the documents that may be found, in the order of the files
  Givens,       \* what the environment and the command line may say
  Host,         \* this machine
  Valid         \* paths the schema of the merged configuration has

IsSequence(t) == t \in Seq(Range(t))
AreWrites(ws) == IsSequence(ws) /\ \A i \in DOMAIN ws : IsSequence(ws[i].path) /\ ws[i].path # <<>>

ConfigurationConstants ==
  /\ \A t \in Trees : IsSequence(t) /\ \A i \in DOMAIN t :
       /\ AreWrites(t[i].body) /\ AreWrites(t[i].overrides) /\ IsSequence(t[i].contexts)
       /\ \A j \in DOMAIN t[i].contexts : AreWrites(t[i].contexts[j].overrides)
  /\ \A g \in Givens : AreWrites(g.env) /\ AreWrites(g.set)

Write(path, value) == [path |-> path, value |-> value]
ContextOf(name, cluster, overrides) == [name |-> name, cluster |-> cluster, overrides |-> overrides]
Document(file, kind, name, body, overrides, site, contexts, current) ==
  [file |-> file, kind |-> kind, name |-> name, body |-> body, overrides |-> overrides,
   site |-> site, contexts |-> contexts, current |-> current]
Given(context, env, set, fanout) ==
  [context |-> context, env |-> env, set |-> set, fanout |-> fanout]
Unnamed == ""
VARIABLES
  documents, given,
  at,           \* "load", "contexts", "resolve", "merge", "done" or "refused"
  next,         \* the document, or the write, that comes next
  index,        \* the documents indexed so far
  contexts,     \* Config.contexts, with the files that define them
  current,      \* Config.currentContext
  writes,       \* the leaves to merge, with their layers
  data, origins,\* the tree: the value and the layer of each leaf
  item          \* the context of the document that comes next

vars == <<documents, given, at, next, index, contexts, current, writes, data, origins, item>>
tree == <<data, origins>>

Layers == {"defaults", "site", "cluster", "workstation", "context", "environment", "flags"}
FromCommand == {"environment", "flags"}

(***************************************************************************)
(* Load: one document after the other.                                     *)
(***************************************************************************)
\* Two documents of one kind and name.
Second(d) == \E e \in index : e.kind = d.kind /\ e.name = d.name

\* A path the schema of the merged configuration has.
validatePath(path) == path \in Valid

OverridesOf(d) == {d.overrides} \cup {c.overrides : c \in Range(d.contexts)}

\* ValidateDocument, checkDocumentOverrides and addDocument.
Bad(d) ==
  \/ \E ws \in OverridesOf(d) : \E i \in DOMAIN ws : ~validatePath(ws[i].path)
  \/ d.kind # "Config" /\ Second(d)

Stop == at' = "refused" /\ UNCHANGED <<next, item, index, contexts, current, writes, tree>>

Load ==
  LET d == documents[next] IN
  /\ at = "load" /\ next <= Len(documents)
  /\ IF Bad(d) THEN Stop
     ELSE /\ next' = next + 1
          /\ index' = IF d.kind = "Config" THEN index ELSE index \cup {d}
          /\ UNCHANGED <<at, item, contexts, current, writes, tree>>
  /\ UNCHANGED <<documents, given>>

Loaded ==
  /\ at = "load" /\ next > Len(documents)
  /\ at' = "contexts" /\ next' = 1
  /\ UNCHANGED <<documents, given, item, index, contexts, current, writes, tree>>

(***************************************************************************)
(* mergeConfigDocuments: one context of one document after the other.      *)
(***************************************************************************)
\* A context replaces the one of its name that an earlier file gave.
Folded(cs, c) ==
  IF \E i \in DOMAIN cs : cs[i].name = c.name
  THEN [i \in DOMAIN cs |-> IF cs[i].name = c.name THEN c ELSE cs[i]]
  ELSE Append(cs, c)

\* A second context of one name in one document.
Twice(d, i) == \E j \in 1..(i - 1) : d.contexts[j].name = d.contexts[i].name

MergeContext ==
  LET d == documents[next] IN
  /\ at = "contexts" /\ next <= Len(documents)
  /\ d.kind = "Config" /\ item <= Len(d.contexts)
  /\ IF Twice(d, item) THEN Stop
     ELSE /\ contexts' = Folded(contexts, d.contexts[item]) /\ item' = item + 1
          /\ UNCHANGED <<at, next, index, current, writes, tree>>
  /\ UNCHANGED <<documents, given>>

MergeConfig ==
  LET d == documents[next] IN
  /\ at = "contexts" /\ next <= Len(documents)
  /\ d.kind = "Config" => item > Len(d.contexts)
  /\ current' = IF d.kind = "Config" /\ d.current # Unnamed THEN d.current ELSE current
  /\ next' = next + 1 /\ item' = 1
  /\ UNCHANGED <<documents, given, at, index, contexts, writes, tree>>

Merged ==
  /\ at = "contexts" /\ next > Len(documents) /\ at' = "resolve"
  /\ UNCHANGED <<documents, given, next, item, index, contexts, current, writes, tree>>

(***************************************************************************)
(* Resolve: the context, its cluster and site, and their layers in order.  *)
(***************************************************************************)
Context ==
  LET name == IF given.context # Unnamed THEN given.context ELSE current IN
  IF name = Unnamed /\ Len(contexts) = 1 THEN {contexts[1]}
  ELSE {c \in Range(contexts) : c.name = name /\ name # Unnamed}

Named(kind, name) == {d \in index : d.kind = kind /\ d.name = name}

workstationFor ==
  IF Named("Workstation", Host) # {} THEN Named("Workstation", Host)
  ELSE Named("Workstation", Unnamed)

In(layer, ws) == [i \in DOMAIN ws |-> [layer |-> layer, path |-> ws[i].path, value |-> ws[i].value]]

DefaultFanout == Write(<<"fanout", "max">>, "default")
FanoutFlag == IF given.fanout THEN <<Write(<<"fanout", "max">>, "--fanout")>> ELSE <<>>

Layered(c, cluster, site) ==
  LET ws == workstationFor
      w == CHOOSE d \in ws : TRUE
  IN In("defaults", <<DefaultFanout>>) \o In("site", site.body)
     \o In("cluster", cluster.body) \o In("cluster", cluster.overrides)
     \o (IF ws = {} THEN <<>> ELSE In("workstation", w.body) \o In("workstation", w.overrides))
     \o In("context", c.overrides)
     \o In("environment", given.env) \o In("flags", given.set) \o In("flags", FanoutFlag)

Resolve ==
  LET found == {f \in Context \X index \X index :
                  /\ f[2].kind = "Cluster" /\ f[2].name = f[1].cluster
                  /\ f[3].kind = "Site" /\ f[3].name = f[2].site}
  IN /\ at = "resolve"
     /\ IF found = {} THEN Stop
        ELSE /\ \E f \in found : writes' = Layered(f[1], f[2], f[3])
             /\ at' = "merge" /\ next' = 1
             /\ UNCHANGED <<item, index, contexts, current, tree>>
     /\ UNCHANGED <<documents, given>>

(***************************************************************************)
(* mergeValue, of one leaf.                                                *)
(***************************************************************************)
Related(p, q) == IsPrefix(p, q) \/ IsPrefix(q, p)

\* A value in the place of a section, or a section in that of a value.
Replaced(path) == \E p \in DOMAIN data : p # path /\ Related(p, path)

\* Origins of what the value replaced are dropped, when it replaced any.
OriginsKept(path) ==
  IF Replaced(path) THEN {p \in DOMAIN origins : ~Related(p, path)} ELSE DOMAIN origins

Merge ==
  LET w == writes[next] IN
  /\ at = "merge" /\ next <= Len(writes)
  /\ IF w.layer \in FromCommand /\ ~validatePath(w.path) THEN Stop
     ELSE /\ data' = [p \in {q \in DOMAIN data : ~Related(q, w.path)} \cup {w.path} |->
                        IF p = w.path THEN w.value ELSE data[p]]
          /\ origins' = [p \in OriginsKept(w.path) \cup {w.path} |->
                           IF p = w.path THEN w.layer ELSE origins[p]]
          /\ next' = next + 1
          /\ UNCHANGED <<at, item, index, contexts, current, writes>>
  /\ UNCHANGED <<documents, given>>

Resolved ==
  /\ at = "merge" /\ next > Len(writes) /\ at' = "done"
  /\ UNCHANGED <<documents, given, next, item, index, contexts, current, writes, tree>>

\* FromCommandLine: by the path itself, or by what it is part of.
FromCommandLine(path) ==
  LET told == {n \in 1..Len(path) : SubSeq(path, 1, n) \in DOMAIN origins} IN
  told # {} /\ origins[SubSeq(path, 1, CHOOSE n \in told : \A m \in told : m <= n)] \in FromCommand

Init ==
  /\ documents \in Trees /\ given \in Givens
  /\ at = "load" /\ next = 1 /\ item = 1 /\ index = {} /\ contexts = <<>> /\ current = Unnamed
  /\ writes = <<>> /\ data = <<>> /\ origins = <<>>

Next ==
  \/ Load \/ Loaded \/ MergeContext \/ MergeConfig \/ Merged
  \/ Resolve \/ Merge \/ Resolved

Spec == Init /\ [][Next]_vars

(***************************************************************************)
(* Properties.                                                             *)
(***************************************************************************)
TypeOK ==
  /\ at \in {"load", "contexts", "resolve", "merge", "done", "refused"}
  /\ index \subseteq Range(documents)
  /\ Range(origins) \subseteq Layers
  /\ \A p, q \in DOMAIN data : Related(p, q) => p = q

\* The last write that says something of a path decides it, as if all layers
\* were read at once: a write counts when none after it is about the same
\* value, a part of it or a section it is in.  Its layer is the one reported,
\* of every value and of nothing else, so that a relative path is taken from
\* where it was written.
LastWriteDecides ==
  at \in {"merge", "done"} =>
    LET before == 1..(next - 1)
        last == {i \in before : \A j \in before : j > i => ~Related(writes[i].path, writes[j].path)}
    IN /\ DOMAIN data = {writes[i].path : i \in last} /\ DOMAIN origins = DOMAIN data
       /\ \A i \in last :
            LET w == writes[i] IN
            /\ data[w.path] = w.value /\ origins[w.path] = w.layer
            /\ FromCommandLine(w.path) <=> w.layer \in FromCommand

\* What is merged is what the files say, however they are ordered: no
\* document of the cluster or the site that is used stands in for another of
\* its name, and of contexts of one name the last file's is used, which alone
\* may replace it.
NoneStandsIn ==
  at = "done" =>
    LET c == CHOOSE x \in Context : TRUE
        defining == {i \in DOMAIN documents : /\ documents[i].kind = "Config"
                                              /\ \E x \in Range(documents[i].contexts) : x.name = c.name}
    IN /\ \A kind \in {"Cluster", "Site", "Workstation"}, name \in {d.name : d \in Range(documents)} :
            Cardinality({i \in DOMAIN documents : documents[i].kind = kind /\ documents[i].name = name}) <= 1
       /\ c \in Range(documents[CHOOSE i \in defining : \A j \in defining : j <= i].contexts)
       /\ Cardinality({i \in DOMAIN contexts : contexts[i].name = c.name}) = 1

(***************************************************************************)
(* The inductive invariant: what was read so far is indexed and is of      *)
(* different names, a context is the last one of its name that was read,   *)
(* and the tree is what was merged so far.                                 *)
(***************************************************************************)
\* The documents that were indexed, and the contexts that were taken over.
AreRead == {i \in DOMAIN documents : at = "load" => i < next}
TakenOf(k) ==
  {m \in DOMAIN documents[k].contexts :
     /\ documents[k].kind = "Config" /\ at # "load"
     /\ at = "contexts" => k < next \/ (k = next /\ m < item)}

PlaceInv ==
  /\ documents \in Trees /\ given \in Givens /\ next \in Nat \ {0} /\ item \in Nat \ {0}
  /\ at = "load" => contexts = <<>> /\ item = 1 /\ next <= Len(documents) + 1
  /\ at = "contexts" => next <= Len(documents) + 1
  /\ at \in {"merge", "done"} => next <= Len(writes) + 1

IndexInv ==
  at # "refused" =>
    /\ \A d \in index : \E i \in AreRead : documents[i] = d
    /\ \A i \in AreRead : documents[i].kind # "Config" => documents[i] \in index
    /\ \A i, j \in AreRead :
         /\ documents[i].kind # "Config" /\ documents[i].kind = documents[j].kind
         /\ documents[i].name = documents[j].name
         => i = j

\* A context is as document k gives it, and no later one that was read does.
LastGiven(c, k) ==
  /\ k \in DOMAIN documents /\ \E m \in TakenOf(k) : documents[k].contexts[m] = c
  /\ \A l \in DOMAIN documents : \A n \in TakenOf(l) : documents[l].contexts[n].name = c.name => l <= k

ContextInv ==
  at # "refused" =>
    /\ IsSequence(contexts)
    /\ \A i, j \in DOMAIN contexts : contexts[i].name = contexts[j].name => i = j
    /\ \A i \in DOMAIN contexts : \E k \in DOMAIN documents : LastGiven(contexts[i], k)

ChosenInv == at \in {"merge", "done"} => Context # {}

WriteInv ==
  at \in {"merge", "done"} => AreWrites(writes) /\ \A i \in DOMAIN writes : writes[i].layer \in Layers

Inv ==
  /\ TypeOK /\ PlaceInv /\ IndexInv /\ ContextInv /\ ChosenInv /\ WriteInv
  /\ (at \in {"load", "contexts", "resolve"} => data = <<>> /\ origins = <<>>) /\ LastWriteDecides
=============================================================================
