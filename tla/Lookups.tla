------------------------------- MODULE Lookups -------------------------------
(***************************************************************************)
(* Node groups, as one command looks them up: the callers of               *)
(* groups.Resolver side by side, the flights that make one lookup of many, *)
(* the pools of lookups that All, GroupsOf and a batch start, the places   *)
(* on the hosts the sources' commands run on, and the cache files.  What   *)
(* the sources answer is outside: groups come and go, hosts do not answer, *)
(* commands fail.                                                          *)
(***************************************************************************)
EXTENDS Naturals, Sequences, FiniteSets

CONSTANTS
  Callers,      \* calls made side by side in one command
  Groups,       \* names of groups
  Order,        \* the sources, the default one first, the others sorted
  Static,       \* sources written in the configuration; the others run commands
  Listing,      \* sources with a command that lists their groups
  Alls,         \* sources with a command for all their nodes
  Cached,       \* sources whose answers are kept on disk
  Path,         \* of a source, the hosts a session to it reaches, in its order
  Limit,        \* Hosts.Limit
  Ops,          \* what the callers are asked to do, side by side
  Begins,       \* what the sources may define when the command begins
  Old,          \* listings that may be on disk from an earlier command
  Fickle,       \* which groups may be added or taken away meanwhile
  Changes       \* bound: how often one is

Bare == "bare"
NoGroup == "no_group"
Sources == {Order[i] : i \in 1..Len(Order)}
Children == Callers \X Groups
Askers == Callers \cup Children
Parent(a) == a[1]
NoHost == {}
On(s) == {Path[s][i] : i \in 1..Len(Path[s])}

Pairs == Sources \X Groups
Refs == [source: Sources \cup {Bare}, group: Groups]
Operations == [kind: {"expr", "all", "groups_of"}, refs: Seq(Refs), source: Sources \cup {Bare}]

\* A command runs on a target, which has a host; an expression is looked up
\* when it names a group, and names each once.
LookupsConstants ==
  /\ Limit \in Nat \ {0} /\ IsFiniteSet(Callers) /\ IsFiniteSet(Groups)
  /\ Callers \cap Children = {} /\ Bare \notin Sources
  /\ Order \in Seq(Sources) /\ Order # <<>>
  /\ \A i, j \in DOMAIN Order : Order[i] = Order[j] => i = j
  /\ Static \cup Listing \cup Alls \cup Cached \subseteq Sources
  /\ Static \cap (Listing \cup Alls \cup Cached) = {}
  /\ \A s \in Sources \ Static : Path[s] \in Seq(Nat) \ {<<>>}
  /\ Fickle \subseteq (Sources \ Static) \X Groups /\ Changes \in Nat
  /\ Begins \subseteq SUBSET Pairs /\ Old \subseteq SUBSET Groups
  /\ \A do \in Ops, c \in Callers :
       /\ do[c] \in Operations
       /\ do[c].kind = "expr" => do[c].refs # <<>>
       /\ \A i, j \in DOMAIN do[c].refs : do[c].refs[i].group = do[c].refs[j].group => i = j
       /\ do[c].kind = "all" => do[c].source \in Sources

VARIABLES
  asker,        \* of an asker, what it is doing
  kept,         \* Resolver.cache and Resolver.missing
  flights,      \* the keys of Resolver.flights
  held,         \* of an asker, the hosts it holds a place on
  disk,         \* the files below cacheDir/groups
  interrupted,  \* the command's context has ended
  defines,      \* which source defines which group
  wasAbsent,    \* history: what was not defined at some time of the command
  changes       \* how often defines has changed

vars == <<asker, kept, flights, held, disk, interrupted, defines, wasAbsent, changes>>
world == <<defines, wasAbsent, changes>>

(***************************************************************************)
(* Keys, answers and askers.                                               *)
(***************************************************************************)
cacheKey(s, kind, g) == [source |-> s, kind |-> kind, group |-> g]
Keys == [source: Sources, kind: {"map", "list", "fresh_list", "all"},
         group: Groups \cup {NoGroup}]

\* names are the groups a listing answers with, from the source that answers.
Answer(what, names, from) == [what |-> what, names |-> names, from |-> from]
Found(s) == Answer("ok", {}, s)
Listed(names) == Answer("ok", names, Bare)
Error(what) == Answer(what, {}, Bare)
Errors == {"none", "not_defined", "failed", "no_transport", "canceled", "cannot_list"}
Answers == [what: {"ok"} \cup Errors, names: SUBSET Groups, from: Sources \cup {Bare}]
NoAnswer == Error("none")

\* kind: "expr" evaluates the groups refs name, "all" is @source:*,
\* "groups of" asks which groups a node is in.
GroupRef(s, g) == [source |-> s, group |-> g]
Op(kind, refs, s) == [kind |-> kind, refs |-> refs, source |-> s]
NoOp == Op("expr", <<>>, Bare)

\* ref and at: the reference being resolved and the source it is looked for
\* in.  stack: the keys being looked up, one within the other.  err: why a
\* command failed, while its source's groups are listed afresh.  first: the
\* first failure of a union, which stops the others.  found and lost: what
\* GroupsOf has read, and whether there was an error.
Asker(op, pc) ==
  [op |-> op, pc |-> pc, ref |-> 1, at |-> 1, stack |-> <<>>,
   ret |-> NoAnswer, err |-> NoAnswer, first |-> NoAnswer,
   found |-> {}, lost |-> FALSE]

Last(s) == s[Len(s)]
Front(s) == SubSeq(s, 1, Len(s) - 1)
KeyOf(a) == Last(asker[a].stack)
Asking(x, k) == [x EXCEPT !.pc = "ask", !.stack = Append(@, k), !.ret = NoAnswer]

\* The error of a command is kept while its source's groups are listed afresh.
Returned(x, r) ==
  [x EXCEPT !.pc = "ret", !.ret = r, !.err = IF Len(x.stack) > 1 THEN @ ELSE NoAnswer,
            !.stack = Front(@)]
Over(x, r) == [x EXCEPT !.pc = "over", !.ret = r]

\* The union of a source's groups has a context of its own, which its first
\* failure ends; other pools run under the command's.
UnionOf(a) == asker[Parent(a)].stack # <<>>
Ended(a) ==
  \/ interrupted
  \/ a \in Children /\ UnionOf(a) /\ asker[Parent(a)].first # NoAnswer

Has(s) == {g \in Groups : <<s, g>> \in defines}

(***************************************************************************)
(* pool.Each: one child for each reference.  Limit, fanout.PerHost at a    *)
(* time, is more than there are groups here.                               *)
(***************************************************************************)
Started(c, refs) ==
  [a \in Askers |->
     IF a = c THEN [asker[c] EXCEPT !.pc = "pool", !.first = NoAnswer]
     ELSE IF a \in Children /\ Parent(a) = c
     THEN IF \E r \in refs : r.group = a[2]
          THEN Asker(Op("expr", <<CHOOSE r \in refs : r.group = a[2]>>, Bare), "ready")
          ELSE Asker(NoOp, "idle")
     ELSE asker[a]]

Pooled(c, s, names) == Started(c, {GroupRef(s, g) : g \in names})

\* Nobody reads the children of a union, or of GroupsOf, once they are over.
Cleared(c) ==
  [a \in Askers |-> IF a \in Children /\ Parent(a) = c THEN Asker(NoOp, "idle") ELSE asker[a]]

(***************************************************************************)
(* lookup: an answer kept, a flight to wait for, or a flight of one's own. *)
(***************************************************************************)
Keeps(r) == r.what \in {"ok", "not_defined"}

\* Only an answer that is kept ends its flight.
SettledIfKept(k, r) == IF Keeps(r) THEN flights \ {k} ELSE flights

Settled(k, r) == flights \ {k}

With(f, k, r) == [j \in DOMAIN f \cup {k} |-> IF j = k THEN r ELSE f[j]]

SettleIn(was, a, k, r) ==
  /\ asker' = [b \in Askers |->
                 IF b = a \/ (was[b].pc = "wait" /\ Last(was[b].stack) = k)
                 THEN Returned(was[b], r) ELSE was[b]]
  /\ kept' = IF Keeps(r) THEN With(kept, k, r) ELSE kept
  /\ flights' = Settled(k, r)

Settle(a, k, r) == SettleIn(asker, a, k, r)

Waits(k) == k \in flights

FromMemory(a) ==
  /\ asker[a].pc = "ask" /\ KeyOf(a) \in DOMAIN kept
  /\ asker' = [asker EXCEPT ![a] = Returned(@, kept[KeyOf(a)])]
  /\ UNCHANGED <<kept, flights, held, disk, interrupted, world>>

Wait(a) ==
  /\ asker[a].pc = "ask" /\ KeyOf(a) \notin DOMAIN kept /\ Waits(KeyOf(a))
  /\ asker' = [asker EXCEPT ![a].pc = "wait"]
  /\ UNCHANGED <<kept, flights, held, disk, interrupted, world>>

Fly(a) == /\ asker[a].pc = "ask" /\ KeyOf(a) \notin DOMAIN kept /\ ~Waits(KeyOf(a))
          /\ UNCHANGED <<held, disk, interrupted, world>>

\* find: the configuration or a file on disk answers at once.
OnDisk(k) == k.source \in Cached /\ k.kind # "fresh_list" /\ k \in DOMAIN disk

Known(k) ==
  IF k.kind = "map" /\ k.source \in Static
  THEN {IF k.group \in Has(k.source) THEN Found(k.source) ELSE Error("not_defined")}
  ELSE IF k.source \notin Static /\ OnDisk(k) THEN {disk[k]}
  ELSE IF k.kind = "all" /\ k.source \notin Static \cup Listing \cup Alls
  THEN {Error("cannot_list")}
  ELSE {}

AtOnce(a) == Fly(a) /\ \E r \in Known(KeyOf(a)) : Settle(a, KeyOf(a), r)

\* find: a command is to be run, or the source's groups are listed first.
Find(a) ==
  LET k == KeyOf(a) IN
  /\ Fly(a) /\ Known(k) = {} /\ flights' = flights \cup {k} /\ UNCHANGED kept
  /\ asker' = IF k.kind # "all" \/ k.source \in Alls THEN [asker EXCEPT ![a].pc = "place"]
              ELSE IF k.source \in Static THEN Pooled(a, k.source, Has(k.source))
              ELSE [asker EXCEPT ![a] = Asking(@, cacheKey(k.source, "list", NoGroup))]

(***************************************************************************)
(* run, under a place on every host of the path.                           *)
(***************************************************************************)
\* The hosts in the order they are passed on the way to the source.
NextPlaceAsGiven(s, want) ==
  Path[s][CHOOSE i \in 1..Len(Path[s]) :
            Path[s][i] \in want /\ \A j \in 1..(i - 1) : Path[s][j] \notin want]

\* Hosts.Acquire sorts them: everybody takes them in one order.
NextPlace(s, want) == CHOOSE h \in want : \A i \in want : h <= i

Holding(h) == {a \in Askers : h \in held[a]}

\* Acquire takes one place after the other.
Acquire(a) ==
  LET want == On(KeyOf(a).source) \ held[a]
      h == NextPlace(KeyOf(a).source, want)
  IN /\ asker[a].pc = "place" /\ ~Ended(a)
     /\ Cardinality(Holding(h)) < Limit
     /\ held' = [held EXCEPT ![a] = @ \cup {h}]
     /\ asker' = [asker EXCEPT ![a].pc = IF want = {h} THEN "run" ELSE "place"]
     /\ UNCHANGED <<kept, flights, disk, interrupted, world>>

\* execFailed: only a source that lists its groups can say that it has no
\* such group, and only when it answers.
ListsAgain(k, r) ==
  k.kind = "map" /\ r.what \notin {"ok", "no_transport"} /\ k.source \in Listing

CommandOver(a, r) ==
  LET k == KeyOf(a) IN
  /\ held' = [held EXCEPT ![a] = NoHost]
  /\ disk' = IF r.what = "ok" /\ k.source \in Cached /\ k.kind # "fresh_list"
             THEN With(disk, k, r) ELSE disk
  /\ IF ListsAgain(k, r)
     THEN /\ asker' = [asker EXCEPT ![a] = 
                 [Asking(@, cacheKey(k.source, "fresh_list", NoGroup)) EXCEPT !.err = r]]
          /\ UNCHANGED <<kept, flights>>
     ELSE Settle(a, k, r)
  /\ UNCHANGED <<interrupted, world>>

NotAcquired(a) == asker[a].pc = "place" /\ Ended(a) /\ CommandOver(a, Error("canceled"))

Run(a) ==
  /\ asker[a].pc = "run"
  /\ LET k == KeyOf(a) IN
     \/ CommandOver(a, Error("failed"))
     \/ CommandOver(a, Error("no_transport"))
     \/ Ended(a) /\ CommandOver(a, Error("canceled"))
     \/ k.kind = "map" /\ k.group \in Has(k.source) /\ CommandOver(a, Found(k.source))
     \/ k.kind # "map" /\ CommandOver(a, Listed(Has(k.source)))

\* The fresh listing has been read, or not.
Decide(a) ==
  LET k == KeyOf(a)  r == asker[a].ret IN
  /\ asker[a].pc = "ret" /\ asker[a].stack # <<>> /\ k.kind = "map"
  /\ Settle(a, k, IF r.what = "ok" /\ k.group \notin r.names THEN Error("not_defined")
                  ELSE asker[a].err)
  /\ UNCHANGED <<held, disk, interrupted, world>>

(***************************************************************************)
(* All: the union of the groups listed.                                    *)
(***************************************************************************)
Union(a) ==
  LET k == KeyOf(a)  r == asker[a].ret IN
  /\ asker[a].pc = "ret" /\ asker[a].stack # <<>> /\ k.kind = "all"
  /\ \/ /\ r.what # "ok" /\ Settle(a, k, r)
     \/ /\ r.what = "ok" /\ asker' = Pooled(a, k.source, r.names)
        /\ UNCHANGED <<kept, flights>>
  /\ UNCHANGED <<held, disk, interrupted, world>>

SourceOf(x) == LET r == x.op.refs[x.ref] IN IF r.source = Bare THEN Order[x.at] ELSE r.source

ItemsOf(c) == {a \in Children : Parent(a) = c /\ asker[a].pc # "idle"}

Looked(c) == {a \in ItemsOf(c) : asker[a].pc = "over"}

\* The answer the batch has for the reference, if it looked it up.
InBatch(a, x) == {b \in Looked(a) : a \in Callers /\ b[2] = x.op.refs[x.ref].group}

Resolve(a, x) ==
  IF InBatch(a, x) # {}
  THEN [x EXCEPT !.pc = "ret", !.at = Len(Order), !.ret = asker[CHOOSE b \in InBatch(a, x) : TRUE].ret]
  ELSE Asking(x, cacheKey(SourceOf(x), "map", x.op.refs[x.ref].group))

StartItem(a) ==
  /\ a \in Children /\ asker[a].pc = "ready" /\ ~Ended(a)
  /\ asker' = [asker EXCEPT ![a] = Resolve(a, @)]
  /\ UNCHANGED <<kept, flights, held, disk, interrupted, world>>

AllOver(c) == \A a \in ItemsOf(c) : asker[a].pc = "over" \/ (asker[a].pc = "ready" /\ Ended(a))

UnionOver(c) ==
  LET x == asker[c] IN
  /\ x.pc = "pool" /\ x.stack # <<>> /\ AllOver(c)
  /\ SettleIn(Cleared(c), c, KeyOf(c),
            IF x.first # NoAnswer THEN x.first
            ELSE IF interrupted THEN Error("canceled")
            ELSE Listed({a[2] : a \in {b \in Looked(c) : asker[b].ret.what = "ok"}}))
  /\ UNCHANGED <<held, disk, interrupted, world>>

(***************************************************************************)
(* What the callers are for.  An expression of several references looks    *)
(* them up side by side before it is evaluated, and keeps what it found.   *)
(***************************************************************************)
Begin(c) ==
  LET x == asker[c] IN
  /\ c \in Callers /\ x.pc = "idle"
  /\ \/ /\ x.op.kind = "all"
        /\ asker' = [asker EXCEPT ![c] = Asking(@, cacheKey(x.op.source, "all", NoGroup))]
     \/ x.op.kind = "groups_of" /\ asker' = [asker EXCEPT ![c].pc = "source"]
     \/ x.op.kind = "expr" /\ Len(x.op.refs) < 2 /\ asker' = [asker EXCEPT ![c] = Resolve(c, @)]
     \/ /\ x.op.kind = "expr" /\ Len(x.op.refs) >= 2
        /\ asker' = Started(c, {x.op.refs[i] : i \in 1..Len(x.op.refs)})
  /\ UNCHANGED <<kept, flights, held, disk, interrupted, world>>

PrefetchOver(c) ==
  /\ asker[c].pc = "pool" /\ asker[c].stack = <<>> /\ asker[c].op.kind = "expr"
  /\ AllOver(c)
  /\ asker' = [asker EXCEPT ![c] = Resolve(c, @)]
  /\ UNCHANGED <<kept, flights, held, disk, interrupted, world>>

\* It goes on whatever the source answered.
GoesOnAfterAny(r) == r.what # "ok"

\* The search for a bare reference goes on when a source has no such group.
GoesOn(r) == r.what = "not_defined"

Resolved(a) ==
  LET x == asker[a]
      bare == x.op.refs[x.ref].source = Bare
      y == IF GoesOn(x.ret) /\ bare /\ x.at < Len(Order)
           THEN Resolve(a, [x EXCEPT !.at = @ + 1])
           ELSE IF x.ret.what = "ok" /\ x.ref < Len(x.op.refs)
           THEN Resolve(a, [x EXCEPT !.at = 1, !.ref = @ + 1])
           ELSE Over(x, x.ret)
      stops == a \in Children /\ UnionOf(a) /\ y.pc = "over" /\ y.ret.what # "ok"
  IN /\ x.pc = "ret" /\ x.stack = <<>> /\ x.op.kind = "expr"
     /\ asker' = [b \in Askers |->
          IF b = a THEN y
          ELSE IF stops /\ b = Parent(a) /\ asker[b].first = NoAnswer
          THEN [asker[b] EXCEPT !.first = x.ret]
          ELSE asker[b]]
     /\ UNCHANGED <<kept, flights, held, disk, interrupted, world>>

AllAnswered(c) ==
  /\ asker[c].pc = "ret" /\ asker[c].stack = <<>> /\ asker[c].op.kind = "all"
  /\ asker' = [asker EXCEPT ![c] = Over(@, @.ret)]
  /\ UNCHANGED <<kept, flights, held, disk, interrupted, world>>

(***************************************************************************)
(* GroupsOf: every source in turn; one that fails does not hide what the   *)
(* others found.                                                           *)
(***************************************************************************)
NextSource(x) == IF x.at < Len(Order) THEN [x EXCEPT !.pc = "source", !.at = @ + 1]
                 ELSE [x EXCEPT !.pc = "over"]

groupsIn(c) ==
  LET s == Order[asker[c].at] IN
  /\ asker[c].pc = "source"
  /\ asker' = IF s \in Static THEN Pooled(c, s, Has(s))
              ELSE IF s \in Listing
              THEN [asker EXCEPT ![c] = Asking(@, cacheKey(s, "list", NoGroup))]
              ELSE [asker EXCEPT ![c] = NextSource(@)]
  /\ UNCHANGED <<kept, flights, held, disk, interrupted, world>>

GroupsListed(c) ==
  LET x == asker[c] IN
  /\ x.pc = "ret" /\ x.stack = <<>> /\ x.op.kind = "groups_of"
  /\ asker' = IF x.ret.what = "ok" THEN Pooled(c, Order[x.at], x.ret.names)
              ELSE [asker EXCEPT ![c] = [NextSource(@) EXCEPT !.lost = TRUE]]
  /\ UNCHANGED <<kept, flights, held, disk, interrupted, world>>

Lost(c, read) == read # ItemsOf(c)

ReadGroups(c) ==
  LET x == asker[c]
      read == {a \in Looked(c) : asker[a].ret.what = "ok"}
  IN /\ x.pc = "pool" /\ x.op.kind = "groups_of" /\ AllOver(c)
     /\ asker' = [Cleared(c) EXCEPT ![c] =
          [NextSource(x) EXCEPT !.found = x.found \cup {<<Order[x.at], a[2]>> : a \in read},
                                !.lost = x.lost \/ Lost(c, read)]]
     /\ UNCHANGED <<kept, flights, held, disk, interrupted, world>>

(***************************************************************************)
(* Outside.                                                                *)
(***************************************************************************)
Interrupt ==
  /\ ~interrupted /\ interrupted' = TRUE
  /\ UNCHANGED <<asker, kept, flights, held, disk, world>>

\* A partition is added to a source, or taken from it.
Change(p) ==
  /\ changes < Changes /\ changes' = changes + 1
  /\ defines' = IF p \in defines THEN defines \ {p} ELSE defines \cup {p}
  /\ wasAbsent' = wasAbsent \cup (Pairs \ defines')
  /\ UNCHANGED <<asker, kept, flights, held, disk, interrupted>>

\* The files an earlier command left may be of another time.
OldListing(s, names) == With(<<>>, cacheKey(s, "list", NoGroup), Listed(names))

Init ==
  /\ \E do \in Ops :
       asker = [a \in Askers |-> Asker(IF a \in Callers THEN do[a] ELSE NoOp, "idle")]
  /\ kept = <<>> /\ flights = {} /\ held = [a \in Askers |-> NoHost]
  /\ disk \in {<<>>} \cup {OldListing(s, names) : s \in Cached \cap Listing, names \in Old}
  /\ interrupted = FALSE /\ changes = 0
  /\ defines \in Begins /\ wasAbsent = Pairs \ defines

Step(a) ==
  \/ FromMemory(a) \/ Wait(a) \/ AtOnce(a) \/ Find(a) \/ Acquire(a) \/ NotAcquired(a)
  \/ Run(a) \/ Decide(a) \/ Resolved(a) \/ StartItem(a)

Call(c) ==
  \/ Begin(c) \/ Union(c) \/ UnionOver(c) \/ PrefetchOver(c) \/ AllAnswered(c)
  \/ groupsIn(c) \/ GroupsListed(c) \/ ReadGroups(c)

Next ==
  \/ \E a \in Askers : Step(a)
  \/ \E c \in Callers : Call(c)
  \/ Interrupt
  \/ \E p \in Fickle : Change(p)

\* Every goroutine runs, and every command ends, at its timeout at the
\* latest; nobody has to interrupt, and no group has to change.
Fairness ==
  /\ \A a \in Askers : WF_vars(Step(a))
  /\ \A c \in Callers : WF_vars(Call(c))

Spec == Init /\ [][Next]_vars /\ Fairness

(***************************************************************************)
(* Properties.                                                             *)
(***************************************************************************)
\* The lookups an asker makes: those it came to, but for one it only asks for.
Flown(x) ==
  {x.stack[i] : i \in 1..(IF x.pc \in {"ask", "wait"} THEN Len(x.stack) - 1 ELSE Len(x.stack))}

TypeOK ==
  /\ \A a \in Askers :
       /\ asker[a].pc \in {"idle", "ready", "ask", "wait", "place", "run",
                           "ret", "pool", "source", "over"}
       /\ asker[a].stack \in Seq(Keys) /\ Len(asker[a].stack) <= 2
       /\ asker[a].ret \in Answers /\ asker[a].found \subseteq Pairs
  /\ DOMAIN kept \subseteq Keys /\ flights \subseteq Keys /\ DOMAIN disk \subseteq Keys
  /\ \A k \in flights : Cardinality({a \in Askers : k \in Flown(asker[a])}) = 1
  /\ held \in [Askers -> SUBSET UNION {On(s) : s \in Sources}]
  /\ defines \subseteq Pairs /\ wasAbsent \subseteq Pairs /\ Pairs \ defines \subseteq wasAbsent

\* A group that is defined the whole time is not answered for by another
\* source and not reported as not defined, whatever failed: nothing but a
\* fresh listing, read in full, says that a source has no such group.
Before(s) == {Order[i] : i \in {i \in DOMAIN Order : \E j \in DOMAIN Order : i < j /\ Order[j] = s}}
Single(x) == x.op.kind = "expr" /\ Len(x.op.refs) = 1

IsAnswered(x, absent) ==
  LET ref == x.op.refs[1]
      Absent(sources) == sources \X {ref.group} \subseteq absent
  IN /\ x.ret.what = "ok" => x.ret.from \in Sources /\ ref.source \in {Bare, x.ret.from}
     /\ x.ret.what = "ok" /\ ref.source = Bare => Absent(Before(x.ret.from))
     /\ x.ret.what = "not_defined" /\ ref.source = Bare => Absent(Sources)
     /\ x.ret.what = "not_defined" /\ ref.source # Bare => Absent({ref.source})

AnswerIsTrue ==
  \A a \in Askers : Single(asker[a]) /\ asker[a].pc = "over" => IsAnswered(asker[a], wasAbsent)

\* The groups of a node are those of every source that lists its groups,
\* unless an error says that some could not be read.
GroupsOfIsWhole ==
  \A c \in Callers : asker[c].pc = "over" /\ asker[c].op.kind = "groups_of" /\ ~asker[c].lost =>
    ((Static \cup Listing) \ Cached) \X Groups \subseteq asker[c].found \cup wasAbsent

\* The union of a source's groups is of all the groups it lists, or says why
\* one of them could not be read.
UnionIsWhole ==
  \A k \in DOMAIN kept : k.kind = "all" /\ kept[k].what = "ok" /\ k.source \notin Alls =>
    IF k.source \in Static THEN kept[k].names = Has(k.source)
    ELSE /\ cacheKey(k.source, "list", NoGroup) \in DOMAIN kept
         /\ kept[k].names = kept[cacheKey(k.source, "list", NoGroup)].names

\* Many callers that ask for one thing send one command between them, and
\* none once it is answered; only Limit sessions reach a host at once, and a
\* caller that waits for another's lookup holds no place.
OneCommand ==
  /\ \A a, b \in Askers : asker[a].pc \in {"place", "run"} =>
       /\ KeyOf(a) \notin DOMAIN kept
       /\ asker[b].pc \in {"place", "run"} /\ a # b => KeyOf(a) # KeyOf(b)
  /\ \A h \in UNION {On(s) : s \in Sources} : Cardinality(Holding(h)) <= Limit
  /\ \A a \in Askers : held[a] # NoHost => asker[a].pc \in {"place", "run"}

\* Every caller gets an answer: no two hold a place each and wait for the
\* other's, and nobody waits for a lookup that nobody makes.
CallsOver == \A c \in Callers : asker[c].pc = "over"
EveryCallEnds == <>CallsOver

(***************************************************************************)
(* Why they hold: the parts of an inductive invariant.                     *)
(***************************************************************************)
Hosts == UNION {On(s) : s \in Sources}
PCs == {"idle", "ready", "ask", "wait", "place", "run", "ret", "pool", "source", "over"}
AskerStates ==
  [op: Operations, pc: PCs, ref: Nat \ {0}, at: Nat \ {0}, stack: Seq(Keys), ret: Answers,
   err: Answers, first: Answers, found: SUBSET Pairs, lost: BOOLEAN]

Values ==
  /\ asker \in [Askers -> AskerStates]
  /\ flights \subseteq Keys /\ DOMAIN kept \subseteq Keys /\ DOMAIN disk \subseteq Keys
  /\ held \in [Askers -> SUBSET Hosts]
  /\ interrupted \in BOOLEAN /\ changes \in Nat
  /\ defines \subseteq Pairs /\ wasAbsent \subseteq Pairs /\ Pairs \ defines \subseteq wasAbsent

\* An asker is after what its operation says; a child after its own group.
Aims(a, x) ==
  /\ x.at \in DOMAIN Order
  /\ a \in Children => x.op.kind = "expr" /\ x.ref = 1 /\ x.pc \notin {"pool", "source"}
  /\ a \in Children /\ x.pc # "idle" => Len(x.op.refs) = 1 /\ x.op.refs[1].group = a[2]
  /\ a \in Callers => x.pc # "ready"
  /\ a \in Callers /\ x.op.kind = "expr" => x.ref \in DOMAIN x.op.refs
  /\ x.op.kind = "all" => x.op.source \in Sources
  /\ x.pc = "source" => x.op.kind = "groups_of"

\* What an asker looks up, and the listing that lookup may need.
Goal(x) ==
  IF x.op.kind = "expr" THEN cacheKey(SourceOf(x), "map", x.op.refs[x.ref].group)
  ELSE IF x.op.kind = "all" THEN cacheKey(x.op.source, "all", NoGroup)
  ELSE cacheKey(Order[x.at], "list", NoGroup)
ListingOf(k) == cacheKey(k.source, IF k.kind = "map" THEN "fresh_list" ELSE "list", NoGroup)
Nests(k) ==
  \/ k.kind = "map" /\ k.source \in Listing
  \/ k.kind = "all" /\ k.source \in Listing \ Alls

Looking == {"ask", "wait", "place", "run"}
Nested(x) ==
  \/ x.stack = <<>> /\ x.pc \notin Looking /\ (x.pc = "pool" => x.op.kind # "all")
  \/ x.stack = <<Goal(x)>> /\ x.pc \in Looking
  \/ x.stack = <<Goal(x)>> /\ x.pc = "ret" /\ Nests(Goal(x))
  \/ /\ x.stack = <<Goal(x)>> /\ x.pc = "pool" /\ x.op.kind = "all"
     /\ x.op.source \in (Static \cup Listing) \ Alls
  \/ x.stack = <<Goal(x), ListingOf(Goal(x))>> /\ x.pc \in Looking /\ Nests(Goal(x))

\* What the answer to a lookup says is so, and is kept.
IsTrue(k, r, absent) ==
  /\ r \in Answers /\ r.what # "none"
  /\ k.kind = "map" /\ r.what = "ok" => r.from = k.source
  /\ k.kind = "map" /\ r.what = "not_defined" => <<k.source, k.group>> \in absent
  /\ (k.kind = "fresh_list" \/ (k.kind = "list" /\ k.source \notin Cached)) /\ r.what = "ok" =>
       {k.source} \X (Groups \ r.names) \subseteq absent
Stands(k, r, known, absent) ==
  IsTrue(k, r, absent) /\ (r.what = "ok" => k \in DOMAIN known /\ known[k] = r)

\* A bare reference comes to a source once those before it have no such group.
Told(x, known, absent) ==
  /\ x.pc = "ret" \/ (x.pc = "over" /\ x.op.kind # "groups_of") => x.ret.what # "none"
  /\ x.pc = "ret" /\ x.stack = <<>> /\ (Single(x) \/ x.op.kind # "expr") =>
       Stands(Goal(x), x.ret, known, absent)
  /\ x.pc = "ret" /\ x.stack # <<>> => Stands(ListingOf(Goal(x)), x.ret, known, absent)
  /\ Single(x) /\ x.op.refs[1].source = Bare =>
       \A i \in 1..(x.at - 1) : <<Order[i], x.op.refs[1].group>> \in absent
  /\ x.op.kind = "expr" /\ (Len(x.stack) = 2 \/ (x.pc = "ret" /\ x.stack # <<>>)) =>
       x.err.what \in {"failed", "canceled"}
  /\ x.pc = "over" /\ Single(x) => IsAnswered(x, absent)

Sound(a, x, known, absent) == Aims(a, x) /\ Nested(x) /\ Told(x, known, absent)
SoundInv == \A a \in Askers : Sound(a, asker[a], kept, wasAbsent)

KeptInv ==
  /\ \A k \in DOMAIN kept : IsTrue(k, kept[k], wasAbsent)
  /\ \A k \in DOMAIN disk : IsTrue(k, disk[k], wasAbsent) /\ (k.kind = "all" => k.source \in Alls)

\* Every lookup under way is made by one asker, and none is made of an answer
\* that is kept.
FlightInv ==
  /\ \A a \in Askers : Flown(asker[a]) \subseteq flights
  /\ \A k \in flights : k \notin DOMAIN kept /\ \E a \in Askers : k \in Flown(asker[a])
  /\ \A a, b \in Askers : Flown(asker[a]) \cap Flown(asker[b]) # {} => a = b

PlaceInv ==
  /\ \A a \in Askers : held[a] # NoHost => asker[a].pc \in {"place", "run"}
  /\ \A a \in Askers : asker[a].pc \in {"place", "run"} =>
       KeyOf(a).source \notin Static /\ (KeyOf(a).kind = "all" => KeyOf(a).source \in Alls)
  /\ \A a \in Askers : asker[a].pc = "place" => On(KeyOf(a).source) \ held[a] # {}
  /\ \A h \in Hosts : Cardinality(Holding(h)) <= Limit

\* A child works while its parent waits for the pool; one reference needs none.
PoolInv ==
  \A a \in Children :
    /\ \/ asker[a].pc \in {"idle", "over"} \/ asker[Parent(a)].pc = "pool"
       \/ asker[a].pc = "ready" /\ interrupted
    /\ Single(asker[Parent(a)]) => asker[a].pc = "idle"

\* The items of a pool are the groups its source lists.
Items(c) == {g \in Groups : asker[<<c, g>>].pc # "idle"}
UnionInv ==
  /\ \A c \in Callers : asker[c].first = NoAnswer \/ asker[c].first.what \notin {"ok", "none"}
  /\ \A c \in Callers : asker[c].pc = "pool" /\ asker[c].op.kind = "all" =>
       LET s == asker[c].op.source  list == cacheKey(s, "list", NoGroup) IN
       /\ s \in Static => Items(c) = Has(s)
       /\ s \notin Static => list \in DOMAIN kept /\ Items(c) = kept[list].names
       /\ \A g \in Groups :
            asker[<<c, g>>].pc = "over" /\ asker[<<c, g>>].ret.what # "ok" => asker[c].first # NoAnswer

\* What GroupsOf has not found is reported, or was not defined.
Shown(s, found, absent) ==
  s \in (Static \cup Listing) \ Cached => {s} \X Groups \subseteq found \cup absent
GroupsInv ==
  \A c \in Callers : LET x == asker[c] IN x.op.kind = "groups_of" =>
    /\ ~x.lost => \A i \in 1..(x.at - 1) : Shown(Order[i], x.found, wasAbsent)
    /\ ~x.lost /\ x.pc = "over" => Shown(Order[x.at], x.found, wasAbsent) /\ x.at = Len(Order)
    /\ x.pc = "pool" => Shown(Order[x.at], {Order[x.at]} \X Items(c), wasAbsent)
    /\ x.pc \in Looking \cup {"ret"} => Order[x.at] \in Listing

Inv ==
  /\ Values /\ SoundInv /\ KeptInv /\ FlightInv /\ PlaceInv /\ PoolInv /\ UnionInv /\ GroupsInv
  /\ UnionIsWhole
=============================================================================
